---- MODULE Spec2Model ----
(***************************************************************************)
(* Link-embed plugin: the fallback orchestrator (tryParsers) and the       *)
(* placeholder reconciliation of an insertion (embedUrl), both from        *)
(* src/src/embedUtils.ts.                                                  *)
(*                                                                         *)
(* The document is a sequence of tokens.  A token is either a piece of a   *)
(* fence line, a line break or the content of a line:                      *)
(*   Fence      the three backticks,                                       *)
(*   EmbedWord  the word "embed" that follows them on an opening fence,    *)
(*   NL         the line break,                                            *)
(*   every other token is the whole content of one line.                   *)
(* So an opening fence is Fence followed by EmbedWord, a closing fence is  *)
(* a Fence followed by anything else.  String searches of the code         *)
(* (indexOf, lastIndexOf, includes) become searches over tokens.  Titles,  *)
(* descriptions, URLs and user text are assumed not to contain backticks,  *)
(* a placeholder id or a url: "..." line.                                  *)
(***************************************************************************)
EXTENDS Integers, Sequences, FiniteSets, TLC

\* ------------------------------------------------------------------ bounds
NumEmbeds == 2
MaxParsers == 2
MaxEdits == 1
NumUrls == 2
MaxCalls == 2
MaxToggles == 1

Embeds == 1..NumEmbeds
Urls == 1..NumUrls
ParserNames == {"local", "jsonlink"}
DelayValues == {0, 100}

\* every list tryParsers may be given
ParserLists == UNION {[1..n -> ParserNames] : n \in 0..MaxParsers}

\* settings.primary and settings.backup
Primary == "local"
Backup == "jsonlink"

\* the lists the callers of embedUrl pass: [settings.primary, settings.backup]
\* (handleEmbedLinkCommand, the paste suggestion) or [parserName]
\* (createParserCommandHandler)
CallerLists == {<<Primary, Backup>>} \cup {<<name>> : name \in ParserNames}

\* ------------------------------------------------------------------ tokens
Tok(k, u, x, p) == [k |-> k, u |-> u, x |-> x, p |-> p]

Fence == Tok("fence", 0, 0, "")
EmbedWord == Tok("embed", 0, 0, "")
NL == Tok("nl", 0, 0, "")
Text == Tok("text", 0, 0, "")
\* title: "Fetching" / image: SPINNER / description: "Fetching <url>"
FetchingLines(u) == Tok("fetching", u, 0, "")
\* title / image / description of a parsed page
DataLines(u, p) == Tok("data", u, 0, p)
\* url: "<url>"
UrlLine(u) == Tok("url", u, 0, "")
FaviconLine(u, p) == Tok("favicon", u, 0, p)
\* the rendered metadata template (it may name the parser)
MetadataLine(p) == Tok("metadata", 0, 0, p)
\* placeholder-id: "<id>"
PlaceholderLine(id) == Tok("placeholder-id", 0, id, "")

\* what a parser returns for a page
Metadata(u, p, fav) == [url |-> u, by |-> p, favicon |-> fav]
NoData == [url |-> 0, by |-> "", favicon |-> FALSE]

\* the error raised by the k-th attempt (a distinct object per attempt)
ParseError(p, k) == [kind |-> "ParseError", parser |-> p, attempt |-> k]
AllParsersFailed == [kind |-> "All parsers failed", parser |-> "", attempt |-> 0]
NoError == [kind |-> "", parser |-> "", attempt |-> 0]

CancelNotice == [ctx |-> "Dummy preview has been deleted or modified. Replacing is cancelled.", err |-> NoError]
ErrorNotice(ctx, e) == [ctx |-> ctx, err |-> e]

VARIABLES
    doc,              \* editor text
    settings,         \* plugin settings
    edits,            \* number of user edits made so far
    pc,               \* per embedUrl call: where it is suspended
    url,              \* per call: selected.text
    placeholderId,    \* per call: the generated id (0 before the call)
    selectedParsers,  \* per call: the parser list
    idx,              \* per call: tryParsers loop index (0-based as in the code)
    notice,           \* per call: the progress Notice held by tryParsers (0 = null)
    visible,          \* per call: the progress notices currently on screen
    invoked,          \* per call: list positions on which parse was invoked
    outcomes,         \* per call: how each invoked parse settled
    ret,              \* per call: what tryParsers returned
    thrown,           \* per call: what tryParsers threw
    notices,          \* per call: notices sent to the notice sink
    outcome,          \* per call: how embedUrl ended
    inserted,         \* per call: the document right after the dummy was written
    before,           \* per call: the document read by the reconciliation
    range,            \* per call: the token range the reconciliation replaced
    writes            \* per call: number of editor writes made by embedUrl

vars == <<doc, settings, edits, pc, url, placeholderId, selectedParsers, idx,
          notice, visible, invoked, outcomes, ret, thrown, notices, outcome,
          inserted, before, range, writes>>

tpVars == <<idx, notice, visible, invoked, outcomes, ret, thrown>>

\* ------------------------------------------------ favicon, cache, renderer
\* One embed block is being rendered (handleEmbedCodeBlock) and one direct
\* call of getFavicon (link decorations) is in flight at a time; when one has
\* ended the next one starts, MaxCalls calls in all.
Blocks == {"block"}
\* calls of getFavicon: the one made by the rendering of the block, and the
\* direct one
FavCalls == Blocks \cup {"direct"}

VARIABLES
    cache,       \* the plugin's Map: key -> favicon string or dimensions
    toggles,     \* number of changes of settings.useCache so far
    calls,       \* per kind of call: the number started so far
    gpc,         \* per getFavicon call: idle, electron, request, done
    gUrl,        \* per getFavicon call: url
    gFetches,    \* per getFavicon call: the fetch backends called, in order
    gOuts,       \* per getFavicon call: how each fetch called settled
    gExtract,    \* per getFavicon call: what the extraction gave
    gResult,     \* per getFavicon call: the value the promise resolved to
    gThrown,     \* per getFavicon call: the promise rejected
    gNotices,    \* per getFavicon call: errors sent to showNotice
    gWrote,      \* per getFavicon call: getFavicon called cache.set
    rpc,         \* per block: idle, base64, waiting, done
    source,      \* per block: the parsed code block
    info,        \* per block: info (values of the first render)
    originalInfo,\* per block: originalInfo (values of the final render)
    promises,    \* per block: the enrichments pushed to promises
    settled,     \* per block: how each pushed enrichment settled
    renders,     \* per block: the calls of renderEmbed, in order
    rNotices,    \* per block: notices sent to showNotice by the handler
    everSet      \* key -> value of the last cache.set made on that key

favVars == <<gpc, gUrl, gFetches, gOuts, gExtract, gResult, gThrown, gNotices, gWrote>>

blockVars == <<rpc, source, info, originalInfo, promises, settled, renders, rNotices>>

rvars == <<cache, toggles, calls, everSet, favVars, blockVars>>

allVars == <<vars, rvars>>

\* calls of either kind started so far
Started == calls["block"] + calls["direct"]

\* an extraction that was not reached
NotYet == "-"

\* the Map starts empty
EmptyMap == [k \in {} |-> ""]

NoInfo == [title |-> "", fetching |-> FALSE, url |-> 0, image |-> "", favicon |-> "",
           aspectRatio |-> 0]

\* nothing rendered, no getFavicon call made; inf is the block at hand
RenderIdleWith(inf) ==
    /\ cache = EmptyMap
    /\ everSet = EmptyMap
    /\ toggles = 0
    /\ calls = [g \in FavCalls |-> 0]
    /\ gpc = [g \in FavCalls |-> "idle"]
    /\ gUrl = [g \in FavCalls |-> 0]
    /\ gFetches = [g \in FavCalls |-> <<>>]
    /\ gOuts = [g \in FavCalls |-> <<>>]
    /\ gExtract = [g \in FavCalls |-> NotYet]
    /\ gResult = [g \in FavCalls |-> ""]
    /\ gThrown = [g \in FavCalls |-> FALSE]
    /\ gNotices = [g \in FavCalls |-> <<>>]
    /\ gWrote = [g \in FavCalls |-> FALSE]
    /\ rpc = [r \in Blocks |-> "idle"]
    /\ source = [r \in Blocks |-> NoInfo]
    /\ info = [r \in Blocks |-> inf]
    /\ originalInfo = [r \in Blocks |-> NoInfo]
    /\ promises = [r \in Blocks |-> {}]
    /\ settled = [r \in Blocks |-> {}]
    /\ renders = [r \in Blocks |-> <<>>]
    /\ rNotices = [r \in Blocks |-> <<>>]

RenderIdle == RenderIdleWith(NoInfo)

\* ------------------------------------------------- state of later sections
VARIABLES
    expired,          \* per call: the notices of the sink that have timed out
    file,             \* the text of the note in the vault
    fileExists,       \* vault.getAbstractFileByPath finds the note
    section,          \* ctx.getSectionInfo(element): lineStart, lineEnd or none
    bAction,          \* the button clicked: refresh, copy, delete
    bpc,              \* position of the click handler
    bContent,         \* content, as vault.read returned it
    bData,            \* refresh: what tryParsers returned
    bEmbed,           \* refresh: indentedNewEmbed
    bNew,             \* the text handed to vault.modify
    bModifies,        \* number of vault.modify calls
    bWrites,          \* the texts vault.modify has written
    clipboard,        \* the texts written to the clipboard
    bNotices,         \* notices sent by the handler
    bFetches,         \* number of tryParsers calls
    bRet,             \* refreshEmbed has returned true
    bEscaped          \* an exception left the click handler

bvars == <<file, fileExists, section, bAction, bpc, bContent, bData, bEmbed, bNew,
           bModifies, bWrites, clipboard, bNotices, bFetches, bRet, bEscaped>>

\* the paste slot, the editor line the paste goes to and the suggestion
VARIABLES
    pasteInfo,        \* plugin.pasteInfo: trigger, and text (0 is the empty text)
    line,             \* the characters of the editor line
    cursor,           \* editor.getCursor().ch
    dirty,            \* the editor has changed and onTrigger has not run yet
    suggestion,       \* the suggestion popup: open, and the query it was opened with
    flows,            \* the last embedUrl or markdown-link call made
    conv,             \* the markdown-link conversions pending, and those ended since the last one began
    hist,             \* since the last paste: its text, the onTrigger calls, the flows
    sSettings         \* autoEmbedWhenEmpty, popup, defaultPasteAction

svars == <<pasteInfo, line, cursor, dirty, suggestion, flows, conv, hist, sSettings>>

NoSuggestion == [open |-> FALSE, query |-> 0]

NoHistory == [paste |-> -1, calls |-> 0, started |-> 0, last |-> "none",
              pastes |-> 0, typed |-> 0]

\* nothing has been pasted
SuggestIdle ==
    /\ pasteInfo = [trigger |-> FALSE, text |-> 0]
    /\ line = <<>>
    /\ cursor = 0
    /\ dirty = FALSE
    /\ suggestion = NoSuggestion
    /\ flows = <<>>
    /\ conv = <<>>
    /\ hist = NoHistory
    /\ sSettings = [autoEmbedWhenEmpty |-> FALSE, popup |-> FALSE,
                    defaultPasteAction |-> "embed"]

\* the links of a rendered element and the processLinks calls over it
VARIABLES
    anchors,          \* what each link of the element is
    marked,           \* the links that carry data-link-favicon
    images,           \* number of favicon images in each link
    fetchedBy,        \* the calls that have called getFavicon for each link
    lpc,              \* position of each processLinks call
    lSnapshot,        \* the NodeList of each call
    lPos              \* the index each call is at

lvars == <<anchors, marked, images, fetchedBy, lpc, lSnapshot, lPos>>

later == <<svars, lvars>>

NumLinks == 2
NumProcessors == 2
MaxPastes == 2
MaxTyped == 1

Links == 1..NumLinks
Processors == 1..NumProcessors

\* no element has been rendered
LinksIdle ==
    /\ anchors = [l \in Links |-> "http"]
    /\ marked = {}
    /\ images = [l \in Links |-> 0]
    /\ fetchedBy = [l \in Links |-> {}]
    /\ lpc = [c \in Processors |-> "idle"]
    /\ lSnapshot = [c \in Processors |-> <<>>]
    /\ lPos = [c \in Processors |-> 0]

NoSection == [lineStart |-> -1, lineEnd |-> -1]

\* no button has been clicked
ButtonsIdle ==
    /\ file = <<>>
    /\ fileExists = TRUE
    /\ section = NoSection
    /\ bAction = "none"
    /\ bpc = "idle"
    /\ bContent = <<>>
    /\ bData = [data |-> NoData, selectedParser |-> ""]
    /\ bEmbed = <<>>
    /\ bNew = <<>>
    /\ bModifies = 0
    /\ bWrites = <<>>
    /\ clipboard = <<>>
    /\ bNotices = <<>>
    /\ bFetches = 0
    /\ bRet = FALSE
    /\ bEscaped = FALSE

\* ------------------------------------------------------------ text helpers
Splice(text, from, to, new) ==
    SubSeq(text, 1, from - 1) \o new \o SubSeq(text, to + 1, Len(text))

\* insert new after the first p tokens
InsertAt(text, p, new) ==
    SubSeq(text, 1, p) \o new \o SubSeq(text, p + 1, Len(text))

Contains(text, t) == \E j \in 1..Len(text) : text[j] = t

\* offsets (number of tokens before it) at which a line starts
LineStarts(text) == {0} \cup {j \in 1..Len(text) : text[j] = NL}

\* offset of the end of the line starting at offset c (its NL excluded)
LineEnd(text, c) ==
    IF \E j \in (c + 1)..Len(text) : text[j] = NL
    THEN (CHOOSE j \in (c + 1)..Len(text) :
             text[j] = NL /\ \A m \in (c + 1)..(j - 1) : text[m] # NL) - 1
    ELSE Len(text)

\* Editor.getLine
getLine(text, c) == SubSeq(text, c + 1, LineEnd(text, c))

\* String.indexOf(t, from), 1-based, 0 for "not found"
IndexOf(text, t, from) ==
    IF \E j \in from..Len(text) : text[j] = t
    THEN CHOOSE j \in from..Len(text) :
            text[j] = t /\ \A m \in from..(j - 1) : text[m] # t
    ELSE 0

IsOpenFenceAt(text, j) ==
    j \in 1..(Len(text) - 1) /\ text[j] = Fence /\ text[j + 1] = EmbedWord

\* String.lastIndexOf of the opening fence, searching backwards from position from
LastIndexOfOpenFence(text, from) ==
    IF \E j \in 1..from : IsOpenFenceAt(text, j)
    THEN CHOOSE j \in 1..from :
            IsOpenFenceAt(text, j) /\ \A m \in (j + 1)..from : ~IsOpenFenceAt(text, m)
    ELSE 0

\* String.trimEnd: drop the trailing line breaks
RECURSIVE trimEnd(_)
trimEnd(text) ==
    IF Len(text) > 0 /\ text[Len(text)] = NL
    THEN trimEnd(SubSeq(text, 1, Len(text) - 1))
    ELSE text

\* ------------------------------------------------------------- templates
\* Mustache.render(MarkdownTemplate, ...): the fenced block with its keys in
\* the order title, image, description, url, favicon, aspectRatio, metadata;
\* an absent favicon or metadata renders no line
MarkdownTemplate(lines, u, favicon, metadata) ==
    <<Fence, EmbedWord, NL, lines, NL, UrlLine(u), NL>>
        \o favicon \o metadata \o <<Fence>>

\* a dummy that carries the data lines of a finished block
dummyEmbedPlain(u, id) ==
    MarkdownTemplate(DataLines(u, ""), u, <<>>, <<PlaceholderLine(id), NL>>) \o <<NL>>

dummyEmbed(u, id) ==
    MarkdownTemplate(FetchingLines(u), u, <<>>, <<PlaceholderLine(id), NL>>) \o <<NL>>

\* a rendering that writes the favicon the parser returned whatever the
\* settings say
generateWithFavicon(data, sett, parserName) ==
    LET metadata == IF sett.useMetadataTemplate
                    THEN <<MetadataLine(parserName), NL>> ELSE <<>>
        favicon == IF data.favicon
                   THEN <<FaviconLine(data.url, data.by), NL>> ELSE <<>>
    IN  MarkdownTemplate(DataLines(data.url, data.by), data.url, favicon, metadata)
            \o <<NL>>

generateEmbedMarkdown(data, sett, parserName) ==
    LET metadata == IF sett.useMetadataTemplate
                    THEN <<MetadataLine(parserName), NL>> ELSE <<>>
        favicon == IF sett.enableFavicon /\ data.favicon
                   THEN <<FaviconLine(data.url, data.by), NL>> ELSE <<>>
    IN  MarkdownTemplate(DataLines(data.url, data.by), data.url, favicon, metadata)
            \o <<NL>>

\* ------------------------------------------------------------ tryParsers
\* a hide that leaves the notice on screen
hideNothing(vis, n) == vis

\* Notice.hide()
hide(vis, n) == vis \ {n}

\* an iteration that calls parse on the next parser too, without awaiting
StartRacing(i, k) ==
    /\ notice' = [notice EXCEPT ![i] = k]
    /\ visible' = [visible EXCEPT ![i] =
                      (IF notice[i] # 0 THEN hide(@, notice[i]) ELSE @) \cup {k}]
    /\ invoked' = [invoked EXCEPT ![i] = @ \o <<k, k + 1>>]

\* the head of one loop iteration, up to the await of parser.parse:
\* the previous progress notice is hidden, a new one is shown, parse is called
StartAttempt(i, k) ==
    /\ notice' = [notice EXCEPT ![i] = k]
    /\ visible' = [visible EXCEPT ![i] =
                      (IF notice[i] # 0 THEN hide(@, notice[i]) ELSE @) \cup {k}]
    /\ invoked' = [invoked EXCEPT ![i] = Append(@, k)]

\* a catch that reports nothing
showNoFailure(log, err) == log

\* the catch of one attempt: showNotice(error, context 'Link Embed - Parser')
showParserFailure(log, err) == Append(log, ErrorNotice("Link Embed - Parser", err))

\* the first parser of the list, whatever the loop index
firstParser(parsers, index) == parsers[1]

\* selectedParsers[idx]
selectedParser(parsers, index) == parsers[index + 1]

\* the error of the first failed attempt instead of the last
firstError(i, err) == IF Len(outcomes[i]) > 0 THEN outcomes[i][1].err ELSE err

\* the error tryParsers throws when the attempt that raised err was the last
\* one: that error itself (throw error)
lastError(i, err) == err

\* ------------------------------------------------------ reconciliation
\* a search for any placeholder-id line, not for the id of this insertion
placeholderIndexOfAny(fullText, id) ==
    IF \E j \in 1..Len(fullText) : fullText[j].k = "placeholder-id"
    THEN CHOOSE j \in 1..Len(fullText) :
            /\ fullText[j].k = "placeholder-id"
            /\ \A m \in 1..(j - 1) : fullText[m].k # "placeholder-id"
    ELSE 0

placeholderIndex(fullText, id) == IndexOf(fullText, PlaceholderLine(id), 1)

embedStart(fullText, pIndex) == LastIndexOfOpenFence(fullText, pIndex)

\* a forward search that starts at the top of the text, not at the id
embedEndFromTop(fullText, pIndex) == IndexOf(fullText, Fence, 1)

embedEnd(fullText, pIndex) == IndexOf(fullText, Fence, pIndex)

\* a check that accepts every block
hasUrlAlways(dummy, u) == TRUE

hasUrl(dummy, u) == Contains(dummy, UrlLine(u))

\* the text as it was when the dummy was written, before the fetch
getValueAtInsertion(i) == inserted[i]

\* editor.getValue() as embedUrl reads it, after the fetch and the delay
getValue(i) == doc

\* a search that, the id being gone, takes the first block holding the URL
LocateForced(fullText, id, u) ==
    LET pIndex == IF placeholderIndex(fullText, id) # 0
                  THEN placeholderIndex(fullText, id)
                  ELSE IndexOf(fullText, UrlLine(u), 1)
        start == embedStart(fullText, pIndex)
        end == embedEnd(fullText, pIndex)
    IN  IF pIndex = 0 \/ start = 0 \/ end = 0
        THEN [replace |-> FALSE, from |-> 0, to |-> 0]
        ELSE IF ~hasUrl(SubSeq(fullText, start, end), u)
        THEN [replace |-> FALSE, from |-> 0, to |-> 0]
        ELSE [replace |-> TRUE, from |-> start, to |-> end]

\* the search of embedUrl in the text it read: the range of the dummy, or
\* the cancellation of the replacement
Locate(fullText, id, u) ==
    LET pIndex == placeholderIndex(fullText, id)
        start == embedStart(fullText, pIndex)
        end == embedEnd(fullText, pIndex)
    IN  IF pIndex = 0 \/ start = 0 \/ end = 0
        THEN [replace |-> FALSE, from |-> 0, to |-> 0]
        ELSE IF ~hasUrl(SubSeq(fullText, start, end), u)
        THEN [replace |-> FALSE, from |-> 0, to |-> 0]
        ELSE [replace |-> TRUE, from |-> start, to |-> end]

\* editor.replaceRange on the editor's current text; a range past the end of
\* the text is clipped to it
replaceRange(text, new, from, to) ==
    LET f == IF from > Len(text) + 1 THEN Len(text) + 1 ELSE from
        t == IF to > Len(text) THEN Len(text) ELSE to
    IN  Splice(text, f, t, new)

\* a catch block that swallows the error
catchSilently(shown, error) == shown

\* the catch block of embedUrl: the error goes to the notice sink, the
\* editor is not touched
catchError(shown, error) ==
    Append(shown, ErrorNotice("Link Embed - Embed URL", error))

\* the tail of embedUrl after the fetch and the delay
Finish(i, data, parserName) ==
    LET embed == generateEmbedMarkdown(data, settings, parserName)
        r == Locate(getValue(i), placeholderId[i], url[i])
    IN  /\ before' = [before EXCEPT ![i] = doc]
        /\ doc' = IF r.replace
                  THEN replaceRange(doc, trimEnd(embed), r.from, r.to)
                  ELSE doc
        /\ range' = [range EXCEPT ![i] = <<r.from, r.to>>]
        /\ outcome' = [outcome EXCEPT ![i] = IF r.replace THEN "replaced" ELSE "cancelled"]
        /\ writes' = [writes EXCEPT ![i] = IF r.replace THEN @ + 1 ELSE @]
        /\ notices' = [notices EXCEPT ![i] = IF r.replace THEN @ ELSE Append(@, CancelNotice)]
        /\ pc' = [pc EXCEPT ![i] = "done"]

\* ------------------------------------------------------------------ state
NoReturn == [data |-> NoData, selectedParser |-> ""]

\* an embed block written by an earlier, finished insertion
EarlierBlock ==
    trimEnd(generateEmbedMarkdown(Metadata(1, "local", FALSE),
                [delay |-> 0, enableFavicon |-> FALSE, useMetadataTemplate |-> FALSE],
                "local")) \o <<NL>>

EmbedInit(docs, setts) ==
    /\ doc \in docs
    /\ settings \in setts
    /\ edits = 0
    /\ pc = [i \in Embeds |-> "idle"]
    /\ url = [i \in Embeds |-> 0]
    /\ placeholderId = [i \in Embeds |-> 0]
    /\ selectedParsers = [i \in Embeds |-> <<>>]
    /\ idx = [i \in Embeds |-> 0]
    /\ notice = [i \in Embeds |-> 0]
    /\ visible = [i \in Embeds |-> {}]
    /\ invoked = [i \in Embeds |-> <<>>]
    /\ outcomes = [i \in Embeds |-> <<>>]
    /\ ret = [i \in Embeds |-> NoReturn]
    /\ thrown = [i \in Embeds |-> NoError]
    /\ notices = [i \in Embeds |-> <<>>]
    /\ outcome = [i \in Embeds |-> "none"]
    /\ inserted = [i \in Embeds |-> <<>>]
    /\ before = [i \in Embeds |-> <<>>]
    /\ range = [i \in Embeds |-> <<0, 0>>]
    /\ writes = [i \in Embeds |-> 0]
    /\ expired = [i \in Embeds |-> {}]

InitWith(docs, setts) ==
    EmbedInit(docs, setts) /\ RenderIdle /\ ButtonsIdle /\ SuggestIdle /\ LinksIdle

Init ==
    InitWith({<<>>, <<Text>>, EarlierBlock},
             [delay : DelayValues, enableFavicon : {TRUE}, useMetadataTemplate : {FALSE}])

\* --------------------------------------------------------------- embedUrl
\* where the dummy goes: past a non-empty cursor line (clipped to the end of
\* the document), on an empty one
InsertOffset(text, c) ==
    IF Len(getLine(text, c)) > 0
    THEN IF LineEnd(text, c) < Len(text) THEN LineEnd(text, c) + 1 ELSE Len(text)
    ELSE c

\* embedUrl up to its first suspension: u is selected.text, c the offset of
\* the cursor line, sel tells whether the selection (the URL, alone on the
\* cursor line) is removed in place
embedUrl(i, u, parsers, c, sel) ==
    /\ pc[i] = "idle"
    /\ \A j \in 1..(i - 1) : pc[j] # "idle"
    /\ c \in LineStarts(doc)
    /\ sel => getLine(doc, c) = <<Text>>
    /\ LET text0 == IF sel THEN Splice(doc, c + 1, c + 1, <<>>) ELSE doc
           text1 == InsertAt(text0, InsertOffset(text0, c), dummyEmbed(u, i))
       IN  /\ doc' = text1
           /\ inserted' = [inserted EXCEPT ![i] = text1]
    /\ url' = [url EXCEPT ![i] = u]
    /\ placeholderId' = [placeholderId EXCEPT ![i] = i]
    /\ selectedParsers' = [selectedParsers EXCEPT ![i] = parsers]
    /\ writes' = [writes EXCEPT ![i] = 1]
    /\ IF Len(parsers) = 0
       THEN \* the loop is not entered: 'All parsers failed' is thrown and caught
            /\ thrown' = [thrown EXCEPT ![i] = AllParsersFailed]
            /\ notices' = [notices EXCEPT ![i] = catchError(@, AllParsersFailed)]
            /\ outcome' = [outcome EXCEPT ![i] = "failed"]
            /\ pc' = [pc EXCEPT ![i] = "done"]
            /\ UNCHANGED <<notice, visible, invoked>>
       ELSE /\ StartAttempt(i, 1)
            /\ pc' = [pc EXCEPT ![i] = "parse"]
            /\ UNCHANGED <<thrown, notices, outcome>>
    /\ UNCHANGED <<settings, edits, idx, outcomes, ret, before, range>>

\* parser.parse resolves with data
ParseResolves(i, fav) ==
    /\ pc[i] = "parse"
    /\ LET k == idx[i] + 1
           parserName == selectedParser(selectedParsers[i], idx[i])
           data == Metadata(url[i], parserName, fav)
       IN  /\ outcomes' = [outcomes EXCEPT ![i] = Append(@, [ok |-> TRUE, data |-> data, err |-> NoError])]
           /\ visible' = [visible EXCEPT ![i] = hide(@, notice[i])]
           /\ ret' = [ret EXCEPT ![i] = [data |-> data, selectedParser |-> parserName]]
           /\ IF settings.delay > 0
              THEN /\ pc' = [pc EXCEPT ![i] = "delay"]
                   /\ UNCHANGED <<doc, before, range, outcome, writes, notices>>
              ELSE Finish(i, data, parserName)
    /\ UNCHANGED <<settings, edits, url, placeholderId, selectedParsers, idx,
                   notice, invoked, thrown, inserted>>

\* the setTimeout of settings.delay fires
DelayElapsed(i) ==
    /\ pc[i] = "delay"
    /\ Finish(i, ret[i].data, ret[i].selectedParser)
    /\ UNCHANGED <<settings, edits, url, placeholderId, selectedParsers, inserted>>
    /\ UNCHANGED tpVars

\* parser.parse rejects
ParseRejects(i) ==
    /\ pc[i] = "parse"
    /\ LET k == idx[i] + 1
           err == ParseError(selectedParser(selectedParsers[i], idx[i]), k)
           shown == showParserFailure(notices[i], err)
       IN  /\ outcomes' = [outcomes EXCEPT ![i] = Append(@, [ok |-> FALSE, data |-> NoData, err |-> err])]
           /\ idx' = [idx EXCEPT ![i] = k]
           /\ IF k = Len(selectedParsers[i])
              THEN \* the last parser: hide, rethrow, caught by embedUrl
                   /\ visible' = [visible EXCEPT ![i] = hide(@, notice[i])]
                   /\ thrown' = [thrown EXCEPT ![i] = lastError(i, err)]
                   /\ notices' = [notices EXCEPT ![i] = catchError(shown, lastError(i, err))]
                   /\ outcome' = [outcome EXCEPT ![i] = "failed"]
                   /\ pc' = [pc EXCEPT ![i] = "done"]
                   /\ UNCHANGED <<notice, invoked>>
              ELSE /\ StartAttempt(i, k + 1)
                   /\ notices' = [notices EXCEPT ![i] = shown]
                   /\ UNCHANGED <<thrown, outcome, pc>>
    /\ UNCHANGED <<doc, settings, edits, url, placeholderId, selectedParsers,
                   ret, inserted, before, range, writes>>

\* ---------------------------------------------------------------- the user
\* The user's edits are followed while an insertion is pending: an edit made
\* before the insertion is another initial document, one made after the
\* insertion has ended no longer meets it.
Pending == \E i \in Embeds : pc[i] \in {"parse", "delay"}

\* the user deletes the lines from the one starting at offset c to the one
\* starting at offset d
UserDeleteLines(c, d) ==
    /\ edits < MaxEdits
    /\ Pending
    /\ c \in LineStarts(doc) /\ d \in LineStarts(doc) /\ c <= d /\ c < Len(doc)
    /\ doc' = Splice(doc, c + 1,
                     IF LineEnd(doc, d) < Len(doc) THEN LineEnd(doc, d) + 1 ELSE Len(doc),
                     <<>>)
    /\ edits' = edits + 1
    /\ UNCHANGED <<settings, pc, url, placeholderId, selectedParsers, notices,
                   outcome, inserted, before, range, writes>>
    /\ UNCHANGED tpVars

\* the user types a line of text at offset c
UserInsertLine(c) ==
    /\ edits < MaxEdits
    /\ Pending
    /\ c \in LineStarts(doc)
    /\ doc' = InsertAt(doc, c, <<Text, NL>>)
    /\ edits' = edits + 1
    /\ UNCHANGED <<settings, pc, url, placeholderId, selectedParsers, notices,
                   outcome, inserted, before, range, writes>>
    /\ UNCHANGED tpVars

Positions == 0..Len(doc)

\* a call of embedUrl by one of the commands or by the paste suggestion
\* URLs are opaque: the URL of a call is one already in the document or in
\* use, or the first one that is not
KnownUrls == {u \in Urls : Contains(doc, UrlLine(u)) \/ \E i \in Embeds : url[i] = u}

NextUrls == {u \in Urls : \A v \in 1..(u - 1) : v \in KnownUrls}

Insertion(E, lists) ==
    \E i \in E, u \in NextUrls, parsers \in lists, c \in Positions, sel \in BOOLEAN :
        embedUrl(i, u, parsers, c, sel) /\ UNCHANGED <<rvars, bvars, expired, later>>

\* a suspended call resumes
Resume(E) ==
    \/ \E i \in E, fav \in BOOLEAN : ParseResolves(i, fav) /\ UNCHANGED <<rvars, bvars, expired, later>>
    \/ \E i \in E : ParseRejects(i) /\ UNCHANGED <<rvars, bvars, expired, later>>
    \/ \E i \in E : DelayElapsed(i) /\ UNCHANGED <<rvars, bvars, expired, later>>

UserEdit ==
    \/ \E c \in Positions, d \in Positions : UserDeleteLines(c, d) /\ UNCHANGED <<rvars, bvars, expired, later>>
    \/ \E c \in Positions : UserInsertLine(c) /\ UNCHANGED <<rvars, bvars, expired, later>>

\* one insertion, with the user editing the document meanwhile
Next == Insertion({1}, CallerLists) \/ Resume({1}) \/ UserEdit

Spec == Init /\ [][Next]_vars

\* several insertions in flight in one document, the user not editing
NextConcurrent == Insertion(Embeds, CallerLists) \/ Resume(Embeds)

InitConcurrent ==
    InitWith({<<Text>>},
             [delay : DelayValues, enableFavicon : {FALSE}, useMetadataTemplate : {FALSE}])

SpecConcurrent == InitConcurrent /\ [][NextConcurrent]_vars

\* one call of tryParsers (made by embedUrl) on any parser list
\* a notice of the sink leaves the screen when its duration has run out;
\* tryParsers keeps no handle on the notices it sent there
NoticeExpires(i, k) ==
    /\ k \in 1..Len(notices[i])
    /\ k \notin expired[i]
    /\ expired' = [expired EXCEPT ![i] = @ \cup {k}]
    /\ UNCHANGED <<vars, rvars, bvars, later>>

Timeouts == \E k \in 1..(MaxParsers + 1) : NoticeExpires(1, k)

NextParsers == Insertion({1}, ParserLists) \/ Resume({1}) \/ Timeouts

SpecParsers == Init /\ [][NextParsers]_<<vars, expired>>

\* ----------------------------------------------------------- properties
Returned(i) == ret[i] # NoReturn

Threw(i) == thrown[i] # NoError

\* every parser of the list was attempted and failed
AllFailed(i) ==
    /\ Len(selectedParsers[i]) > 0
    /\ Len(outcomes[i]) = Len(selectedParsers[i])
    /\ \A j \in 1..Len(outcomes[i]) : ~outcomes[i][j].ok

\* C1: tryParsers short-circuits: when pk is the first parser whose parse
\* succeeds, tryParsers returns pk's data with pk as selectedParser, and parse
\* has been invoked on p1..pk only, never on a later parser of the list.
C1_ShortCircuit ==
    \A i \in Embeds :
        Returned(i) =>
            \E k \in 1..Len(selectedParsers[i]) :
                /\ Len(outcomes[i]) = k
                /\ outcomes[i][k].ok
                /\ \A j \in 1..(k - 1) : ~outcomes[i][j].ok
                /\ ret[i].data = outcomes[i][k].data
                /\ ret[i].data.by = selectedParsers[i][k]
                /\ ret[i].selectedParser = selectedParsers[i][k]
                /\ invoked[i] = [j \in 1..k |-> j]

\* the first parser of a longer list succeeded and the call has ended
C1_Witness ==
    \E i \in Embeds :
        /\ Returned(i) /\ pc[i] = "done"
        /\ Len(outcomes[i]) = 1
        /\ Len(selectedParsers[i]) > 1
        /\ selectedParsers[i][1] # selectedParsers[i][2]

C3_ProgressDismissed ==
    \A i \in Embeds :
        /\ Cardinality(visible[i]) <= 1
        /\ (Returned(i) \/ Threw(i)) => visible[i] = {}
        /\ pc[i] = "parse" => visible[i] = {notice[i]}

\* a call that showed a second indicator has ended
C3_Witness ==
    \E i \in Embeds :
        /\ pc[i] = "done"
        /\ Len(invoked[i]) > 1
        /\ visible[i] = {}

\* the dummy block as embedUrl wrote it, and the block that replaces it
DummyBlock(i) == trimEnd(dummyEmbed(url[i], placeholderId[i]))

FinalBlockOf(r) == trimEnd(generateEmbedMarkdown(r.data, settings, r.selectedParser))

OccursAt(text, block, a) ==
    /\ a + Len(block) <= Len(text)
    /\ SubSeq(text, a + 1, a + Len(block)) = block

Occurs(text, block) == \E a \in 0..Len(text) : OccursAt(text, block, a)

IdOf(i) == PlaceholderLine(placeholderId[i])

\* the step in which embedUrl, its fetch resolved, reads the document and
\* replaces the dummy or cancels
Resolves(i) == outcome[i] = "none" /\ outcome'[i] \in {"replaced", "cancelled"}

\* C4: if the document read by the reconciliation still contains the dummy
\* block with placeholder id X and the url line of the requested URL, the
\* dummy is replaced by the generated final block and the resulting document
\* contains no occurrence of X.
C4_DummyReplaced ==
    [][\A i \in Embeds :
          Resolves(i) =>
             \A a \in 0..Len(doc) :
                OccursAt(doc, DummyBlock(i), a) =>
                   /\ outcome'[i] = "replaced"
                   /\ doc' = Splice(doc, a + 1, a + Len(DummyBlock(i)), FinalBlockOf(ret'[i]))
                   /\ ~Contains(doc', IdOf(i))]_vars

\* the dummy was replaced although the user had edited the document while
\* the fetch was pending
C4_Witness ==
    \E i \in Embeds :
        /\ outcome[i] = "replaced"
        /\ before[i] # inserted[i]
        /\ Occurs(before[i], DummyBlock(i))
        /\ ~Contains(doc, IdOf(i))

\* C5: if placeholder id X is no longer in the document when the resolution
\* completes, embedUrl replaces nothing: the document is what it was right
\* before, and only a notice is added.
C5_StaleIsNoOp ==
    [][\A i \in Embeds :
          (Resolves(i) /\ ~Contains(doc, IdOf(i))) =>
             /\ doc' = doc
             /\ outcome'[i] = "cancelled"
             /\ writes'[i] = writes[i]
             /\ notices'[i] = Append(notices[i], CancelNotice)]_vars

\* the block was deleted while the fetch was pending, next to an earlier
\* block of the same URL, and the resolution was cancelled
C5_Witness ==
    \E i \in Embeds :
        /\ outcome[i] = "cancelled"
        /\ Contains(inserted[i], IdOf(i))
        /\ ~Contains(before[i], IdOf(i))
        /\ Contains(before[i], UrlLine(url[i]))
        /\ doc = before[i]

\* the four cases in which the dummy counts as deleted or modified
IdMissing(text, i) == ~Contains(text, IdOf(i))

NoOpeningFence(text, i) ==
    /\ Contains(text, IdOf(i))
    /\ ~\E s \in 1..IndexOf(text, IdOf(i), 1) : IsOpenFenceAt(text, s)

NoClosingFence(text, i) ==
    /\ Contains(text, IdOf(i))
    /\ ~\E e \in IndexOf(text, IdOf(i), 1)..Len(text) : text[e] = Fence

UrlChanged(text, i) ==
    /\ Contains(text, IdOf(i))
    /\ \E s \in 1..Len(text), e \in 1..Len(text) :
          /\ s < IndexOf(text, IdOf(i), 1) /\ IndexOf(text, IdOf(i), 1) < e
          /\ IsOpenFenceAt(text, s) /\ text[e] = Fence
          /\ \A m \in (s + 1)..(e - 1) :
                /\ (m < IndexOf(text, IdOf(i), 1) => ~IsOpenFenceAt(text, m))
                /\ (m > IndexOf(text, IdOf(i), 1) => text[m] # Fence)
          /\ \A m \in s..e : text[m] # UrlLine(url[i])

\* C6: embedUrl aborts the replacement, leaves the document unchanged and
\* notifies the user when the placeholder id is gone, when no opening fence
\* precedes it, when no closing fence follows it, or when the located block
\* no longer holds the expected URL.
C6_AbortsWhenModified ==
    [][\A i \in Embeds :
          (/\ Resolves(i)
           /\ \/ IdMissing(doc, i)
              \/ NoOpeningFence(doc, i)
              \/ NoClosingFence(doc, i)
              \/ UrlChanged(doc, i)) =>
             /\ doc' = doc
             /\ outcome'[i] = "cancelled"
             /\ writes'[i] = writes[i]
             /\ notices'[i] = Append(notices[i], CancelNotice)]_vars

\* the block is still fenced and still holds the id, its url line is gone
C6_Witness ==
    \E i \in Embeds :
        /\ outcome[i] = "cancelled"
        /\ UrlChanged(before[i], i)
        /\ doc = before[i]

\* C7: whenever embedUrl replaces, the replaced range is exactly the fenced
\* block that encloses placeholder id X: it starts at an opening fence, ends
\* at the next fence, a closing one, holds X, and everything outside it is
\* unchanged.
C7_ExactBlock ==
    [][\A i \in Embeds :
          (Resolves(i) /\ outcome'[i] = "replaced") =>
             LET s == range'[i][1]
                 e == range'[i][2]
                 p == IndexOf(doc, IdOf(i), 1)
             IN  /\ IsOpenFenceAt(doc, s)
                 /\ doc[e] = Fence /\ ~IsOpenFenceAt(doc, e)
                 /\ s < p /\ p < e
                 /\ \A m \in (s + 1)..(e - 1) : doc[m] # Fence
                 /\ doc' = Splice(doc, s, e, FinalBlockOf(ret'[i]))]_vars

\* C8: the offsets embedUrl replaces at are those of the dummy in the text
\* current at the moment of the replacement, read after the fetch and the
\* configured delay have both completed.
C8_OffsetsAreCurrent ==
    [][\A i \in Embeds :
          (Resolves(i) /\ outcome'[i] = "replaced") =>
             LET s == range'[i][1]
                 e == range'[i][2]
                 p == IndexOf(doc, IdOf(i), 1)
             IN  /\ ret'[i] # NoReturn
                 /\ settings.delay > 0 => pc[i] = "delay"
                 /\ before'[i] = doc
                 /\ p # 0 /\ s < p /\ p < e /\ e <= Len(doc)
                 /\ IsOpenFenceAt(doc, s)
                 /\ doc[e] = Fence
                 /\ doc' = Splice(doc, s, e, FinalBlockOf(ret'[i]))]_vars

\* the dummy moved while the fetch and the delay were pending and was
\* replaced where it then was
C8_Witness ==
    \E i \in Embeds :
        /\ outcome[i] = "replaced"
        /\ settings.delay > 0
        /\ range[i][1] # LastIndexOfOpenFence(inserted[i], IndexOf(inserted[i], IdOf(i), 1))
        /\ Occurs(doc, FinalBlockOf(ret[i]))

\* every insertion was made while the earlier ones were still pending
InFlightTogether ==
    \A i \in Embeds, j \in Embeds : i < j => Contains(inserted[j], IdOf(i))

\* C9: when insertions were in flight at the same time and the fetches of all
\* of them have resolved, each dummy has been replaced by the block generated
\* for its own URL.
C9_EachReplaced ==
    (InFlightTogether /\ \A i \in Embeds : pc[i] = "done" /\ Returned(i)) =>
        \A i \in Embeds :
            /\ outcome[i] = "replaced"
            /\ Occurs(doc, FinalBlockOf(ret[i]))
            /\ ~Contains(doc, IdOf(i))

\* no insertion was made inside the fenced block written by an earlier one
\* (calls are numbered in the order in which they are made)
NoneInsideAnother ==
    \A i \in Embeds, j \in Embeds :
        (i < j /\ pc[j] # "idle") =>
            \/ Occurs(inserted[j], DummyBlock(i))
            \/ Occurs(inserted[j], FinalBlockOf(ret[i]))

\* C9 as amended: when no insertion was made inside the block of another,
\* every interleaving of the completions ends with each dummy replaced by
\* the block generated for its own URL.
C9_EachReplacedUnlessNested == NoneInsideAnother => C9_EachReplaced

\* two insertions of different URLs were in flight together, the later one
\* resolved first, and both dummies were replaced
C9_Witness ==
    /\ NoneInsideAnother
    /\ \A i \in Embeds : outcome[i] = "replaced"
    /\ \E i \in Embeds, j \in Embeds :
          /\ i < j /\ url[i] # url[j]
          /\ Contains(inserted[j], IdOf(i))
          /\ ~Contains(before[i], IdOf(j))
          /\ Occurs(doc, FinalBlockOf(ret[i])) /\ Occurs(doc, FinalBlockOf(ret[j]))

\* C10: when every parser fails during embedUrl, the error is reported
\* through the notice sink and embedUrl ends without editing the document
\* after it wrote the dummy.
C10_FailureLeavesDummy ==
    [][\A i \in Embeds :
          (pc[i] = "parse" /\ outcome'[i] = "failed") =>
             /\ doc' = doc
             /\ (edits = 0 => doc' = inserted[i])
             /\ writes'[i] = 1
             /\ pc'[i] = "done"
             /\ AllFailed(i)'
             /\ Len(notices'[i]) = Len(notices[i]) + 2
             /\ notices'[i][Len(notices'[i])] =
                   ErrorNotice("Link Embed - Embed URL", thrown'[i])]_vars

\* both parsers failed and the dummy is in the document as it was written
C10_Witness ==
    \E i \in Embeds :
        /\ outcome[i] = "failed"
        /\ Len(outcomes[i]) > 1
        /\ doc = inserted[i]
        /\ Occurs(doc, DummyBlock(i))

\* ================================================================ cache
\* keys of the one Map: page URLs (favicons) and image references
\* (dimensions); the two key spaces are taken not to collide
\* The cache is one Map for favicons and image dimensions, keyed by the
\* address itself: a page address for a favicon, an image address for
\* dimensions. SamePage is the image whose address is the address of page 1
\* (a block made for a link to an image).
SamePage == "page"

UrlKey(u) == <<"url", u>>
ImageKey(m) == IF m = SamePage THEN UrlKey(1) ELSE <<"image", m>>

\* the dimensions object of an image of aspect ratio d, as a cache value
Dimensions(d) == ToString(d)

\* dimensions.aspectRatio of a cache value: undefined (0) when the value is
\* not a dimensions object
aspectRatioOf(v) ==
    LET ratios == {d \in 1..200 : Dimensions(d) = v}
    IN  IF ratios # {} THEN CHOOSE d \in ratios : TRUE ELSE 0

\* the pages whose favicon is asked for: the one the block links to, and
\* another one
BlockUrls == {1}
FaviconUrls == BlockUrls \cup {2}

Keys == {UrlKey(u) : u \in FaviconUrls} \cup {ImageKey(m) : m \in {"http", "data", "local"}}

\* the lookup ignoring the configuration flag
hasIgnoringFlag(sett, c, key) == key \in DOMAIN c

\* the lookup skipped
hasNothing(sett, c, key) == FALSE

\* settings.useCache && cache.has(key): the lookup every call site makes
has(sett, c, key) == sett.useCache /\ key \in DOMAIN c

get(c, key) == c[key]

set(c, key, v) == [k \in DOMAIN c \cup {key} |-> IF k = key THEN v ELSE c[k]]

\* history of cache.set: the last value set on each key
Remember(log, key, v) == [k \in DOMAIN log \cup {key} |-> IF k = key THEN v ELSE log[k]]

\* ============================================================ getFavicon
Icons == {"a.ico"}
Null == "null"

\* failures raised between the fetch and the result
ExtractErrors == {"HtmlParseError", "UrlError", "ExtractError"}
FetchError == "FetchError"

\* what parsing the html and the url and extracting the favicon can give
ExtractOutcomes == Icons \cup {Null, ""} \cup ExtractErrors

\* JavaScript truthiness of a favicon value
Truthy(v) == v \notin {Null, ""}

\* what the call leaves behind when it ends
Ended(value, rejected, shown, wrote, c, log) ==
    [result |-> value, thrown |-> rejected, notices |-> shown, wrote |-> wrote,
     cache |-> c, everSet |-> log]

\* the error escaping to the caller
rethrowFavicon(error) == Ended("", TRUE, <<>>, FALSE, cache, everSet)

\* catch (error) { showNotice(...); return ''; }
catchFavicon(error) == Ended("", FALSE, <<error>>, FALSE, cache, everSet)

\* every extraction result stored
shouldStoreAny(favicon, sett) == sett.useCache

\* the store made whatever the flag
shouldStoreAlways(favicon, sett) == Truthy(favicon)

\* if (favicon && settings.useCache)
shouldStore(favicon, sett) == Truthy(favicon) /\ sett.useCache

\* from the html to the return value
afterHtml(g, ext) ==
    IF ext \in ExtractErrors THEN catchFavicon(ext)
    ELSE IF shouldStore(ext, settings)
         THEN Ended(ext, FALSE, <<>>, TRUE,
                    set(cache, UrlKey(gUrl[g]), ext),
                    Remember(everSet, UrlKey(gUrl[g]), ext))
    ELSE IF Truthy(ext) THEN Ended(ext, FALSE, <<>>, FALSE, cache, everSet)
    ELSE Ended("", FALSE, <<>>, FALSE, cache, everSet)

\* if (!html) return ''
noHtml == Ended("", FALSE, <<>>, FALSE, cache, everSet)

\* getFavicon up to its first await: the fast path, or the primary fetch
getFaviconStart(g, u) ==
    /\ gUrl' = [gUrl EXCEPT ![g] = u]
    /\ IF has(settings, cache, UrlKey(u))
       THEN /\ gpc' = [gpc EXCEPT ![g] = "done"]
            /\ gResult' = [gResult EXCEPT ![g] = get(cache, UrlKey(u))]
            /\ gFetches' = [gFetches EXCEPT ![g] = <<>>]
       ELSE /\ gpc' = [gpc EXCEPT ![g] = "electron"]
            /\ gFetches' = [gFetches EXCEPT ![g] = <<"electron">>]
            /\ gResult' = [gResult EXCEPT ![g] = ""]
    /\ gOuts' = [gOuts EXCEPT ![g] = <<>>]
    /\ gExtract' = [gExtract EXCEPT ![g] = NotYet]
    /\ gThrown' = [gThrown EXCEPT ![g] = FALSE]
    /\ gNotices' = [gNotices EXCEPT ![g] = <<>>]
    /\ gWrote' = [gWrote EXCEPT ![g] = FALSE]

\* no call of getFavicon is made for the block
getFaviconNotCalled(g) ==
    /\ gpc' = [gpc EXCEPT ![g] = "idle"]
    /\ gUrl' = [gUrl EXCEPT ![g] = 0]
    /\ gFetches' = [gFetches EXCEPT ![g] = <<>>]
    /\ gResult' = [gResult EXCEPT ![g] = ""]
    /\ gOuts' = [gOuts EXCEPT ![g] = <<>>]
    /\ gExtract' = [gExtract EXCEPT ![g] = NotYet]
    /\ gThrown' = [gThrown EXCEPT ![g] = FALSE]
    /\ gNotices' = [gNotices EXCEPT ![g] = <<>>]
    /\ gWrote' = [gWrote EXCEPT ![g] = FALSE]

\* ============================================================ renderEmbed
baseWidth == 160
PlaceholderRatio == 100
DummyRatio == 1
SPINNER == "spinner"

\* x / y with the fraction dropped
Truncated(x, y) == x \div y

\* Math.round(x / y) for positive integers
Round(x, y) == (2 * x + y) \div (2 * y)

\* the width of a card whose ratio is taken as a factor, not as a percentage
calculatedWidthUnscaled(aspectRatio) ==
    IF aspectRatio # 0 THEN Round(baseWidth, aspectRatio) ELSE baseWidth * 100

\* aspectRatio ? Math.round((baseWidth * 100) / aspectRatio) : baseWidth * 100
\* (an absent aspect ratio is 0)
calculatedWidth(aspectRatio) ==
    IF aspectRatio # 0 THEN Round(baseWidth * 100, aspectRatio) ELSE baseWidth * 100

\* one call of renderEmbed: what the element shows
renderEmbed(phase, renderInfo, imageUrl, aspectRatio, sett) ==
    [phase |-> phase,
     url |-> renderInfo.url,
     image |-> imageUrl,
     favicon |-> IF sett.enableFavicon THEN renderInfo.favicon ELSE "",
     aspectRatio |-> aspectRatio,
     width |-> calculatedWidth(aspectRatio)]

\* the element rendered twice
renderedTwice(rs, el) == Append(Append(rs, el), el)

\* el.replaceWith(newEl)
rendered(rs, el) == Append(rs, el)

\* ==================================================== handleEmbedCodeBlock
DeclaredRatios == {150}
DimRatios == {50}

\* the code blocks rendered: a dummy written by embedUrl, or a block with
\* or without image, favicon and aspect ratio
\* fetching: the description starts with 'Fetching '
DummySource(u) ==
    [title |-> "Fetching", fetching |-> TRUE, url |-> u, image |-> SPINNER,
     favicon |-> "", aspectRatio |-> 0]

\* a block titled 'Fetching' whose image is not the spinner
TitledFetching(u) == [DummySource(u) EXCEPT !.image = "http"]

Sources ==
    {DummySource(u) : u \in BlockUrls} \cup
    {TitledFetching(u) : u \in BlockUrls} \cup
    [title : {"t"}, fetching : {FALSE}, url : BlockUrls, image : {"", "http", "local"},
     favicon : {"", "declared.ico"}, aspectRatio : {0} \cup DeclaredRatios]

\* a check that recognises no block
isDummyEmbedNever(src) == FALSE

\* info.title === 'Fetching' && info.image === SPINNER &&
\* info.description?.startsWith('Fetching ')
isDummyEmbed(src) == src.title = "Fetching" /\ src.image = SPINNER /\ src.fetching

\* !info.image.startsWith('http') && !info.image.startsWith('data:')
isLocal(image) == image \notin {"", "http", "data", SamePage}

\* Promise.race instead of Promise.all
anySettled(r) == \E e \in promises[r] : \E how \in {"resolved", "empty", "rejected"} : <<e, how>> \in settled[r]

\* Promise.all(promises): every pushed promise has settled
allSettled(r) == \A e \in promises[r] : \E how \in {"resolved", "empty", "rejected"} : <<e, how>> \in settled[r]

\* lines 110-277: the enrichments are started, the first render is made
Setup(r, inf, orig) ==
    LET needFav == inf.favicon = "" /\ inf.url # 0 /\ settings.enableFavicon
        favHit == needFav /\ has(settings, cache, UrlKey(inf.url))
        favFetch == needFav /\ ~favHit
        needAR == settings.respectImageAspectRatio /\ inf.aspectRatio = 0 /\ inf.image # ""
        arHit == needAR /\ has(settings, cache, ImageKey(inf.image))
        probe == needAR /\ ~arHit
        fav1 == IF favHit THEN get(cache, UrlKey(inf.url))
                ELSE IF needFav THEN SPINNER ELSE inf.favicon
        fav2 == IF favHit THEN get(cache, UrlKey(inf.url)) ELSE orig.favicon
        ar1 == IF arHit THEN aspectRatioOf(get(cache, ImageKey(inf.image)))
               ELSE IF needAR THEN PlaceholderRatio ELSE inf.aspectRatio
        ar2 == IF arHit THEN aspectRatioOf(get(cache, ImageKey(inf.image))) ELSE orig.aspectRatio
        inf1 == [inf EXCEPT !.favicon = fav1, !.aspectRatio = ar1]
        orig1 == [orig EXCEPT !.favicon = fav2, !.aspectRatio = ar2]
        pushed == (IF favFetch THEN {"favicon"} ELSE {}) \cup (IF probe THEN {"aspect"} ELSE {})
    IN  /\ info' = [info EXCEPT ![r] = inf1]
        /\ originalInfo' = [originalInfo EXCEPT ![r] = orig1]
        /\ promises' = [promises EXCEPT ![r] = pushed]
        /\ renders' = [renders EXCEPT ![r] =
               rendered(<<>>, renderEmbed("first", inf1, inf1.image, inf1.aspectRatio, settings))]
        /\ settled' = [settled EXCEPT ![r] = {}]
        /\ rpc' = [rpc EXCEPT ![r] = IF pushed # {} THEN "waiting" ELSE "done"]
        /\ IF favFetch THEN getFaviconStart(r, inf.url) ELSE getFaviconNotCalled(r)
        /\ UNCHANGED <<cache, everSet>>

\* the code block processor is called on a block
handleEmbedCodeBlock(r, src) ==
    /\ rpc[r] \in {"idle", "done"}
    /\ Started < MaxCalls
    /\ calls' = [calls EXCEPT ![r] = @ + 1]
    /\ source' = [source EXCEPT ![r] = src]
    /\ rNotices' = [rNotices EXCEPT ![r] = <<>>]
    /\ IF isDummyEmbed(src)
       THEN /\ renders' = [renders EXCEPT ![r] =
                   rendered(<<>>, renderEmbed("first", src, src.image, DummyRatio, settings))]
            /\ rpc' = [rpc EXCEPT ![r] = "done"]
            /\ info' = [info EXCEPT ![r] = src]
            /\ originalInfo' = [originalInfo EXCEPT ![r] = src]
            /\ promises' = [promises EXCEPT ![r] = {}]
            /\ settled' = [settled EXCEPT ![r] = {}]
            /\ getFaviconNotCalled(r)
            /\ UNCHANGED <<cache, everSet>>
       ELSE IF isLocal(src.image)
       THEN /\ rpc' = [rpc EXCEPT ![r] = "base64"]
            /\ info' = [info EXCEPT ![r] = src]
            /\ originalInfo' = [originalInfo EXCEPT ![r] = src]
            /\ promises' = [promises EXCEPT ![r] = {}]
            /\ settled' = [settled EXCEPT ![r] = {}]
            /\ renders' = [renders EXCEPT ![r] = <<>>]
            /\ getFaviconNotCalled(r)
            /\ UNCHANGED <<cache, everSet>>
       ELSE Setup(r, src, src)
    /\ UNCHANGED toggles

\* await imageFileToBase64 resolves, with a data URL or with nothing
Base64Resolves(r, data) ==
    /\ rpc[r] = "base64"
    /\ IF data
       THEN Setup(r, [info[r] EXCEPT !.image = "data"], [originalInfo[r] EXCEPT !.image = "data"])
       ELSE Setup(r, info[r], originalInfo[r])
    /\ UNCHANGED <<source, rNotices, toggles, calls>>

\* await imageFileToBase64 rejects: the path is kept
Base64Rejects(r) ==
    /\ rpc[r] = "base64"
    /\ Setup(r, info[r], originalInfo[r])
    /\ rNotices' = [rNotices EXCEPT ![r] = Append(@, "Link Embed - Image")]
    /\ UNCHANGED <<source, toggles, calls>>

\* the state of the insertions, which the renderer leaves alone
embedVars == <<doc, edits, pc, url, placeholderId, selectedParsers, idx,
               notice, visible, invoked, outcomes, ret, thrown, notices, outcome,
               inserted, before, range, writes,
               expired, bvars, later>>

\* getFavicon ends; for the call made by the rendering of a block the
\* handlers chained on the promise run (eventHandlers.ts, .then and .catch)
Return(g, out, ext, end) ==
    /\ gpc' = [gpc EXCEPT ![g] = "done"]
    /\ gOuts' = [gOuts EXCEPT ![g] = Append(@, out)]
    /\ gExtract' = [gExtract EXCEPT ![g] = ext]
    /\ gResult' = [gResult EXCEPT ![g] = end.result]
    /\ gThrown' = [gThrown EXCEPT ![g] = end.thrown]
    /\ gNotices' = [gNotices EXCEPT ![g] = @ \o end.notices]
    /\ gWrote' = [gWrote EXCEPT ![g] = end.wrote]
    /\ UNCHANGED <<gUrl, gFetches, toggles, calls, settings, embedVars>>
    /\ IF g \notin Blocks
       THEN /\ cache' = end.cache
            /\ everSet' = end.everSet
            /\ UNCHANGED blockVars
       ELSE IF end.thrown
       THEN /\ cache' = end.cache
            /\ everSet' = end.everSet
            /\ rNotices' = [rNotices EXCEPT ![g] = Append(@, "Link Embed - Favicon")]
            /\ settled' = [settled EXCEPT ![g] = @ \cup {<<"favicon", "rejected">>}]
            /\ UNCHANGED <<rpc, source, info, originalInfo, promises, renders>>
       ELSE LET favicon == end.result
                store == settings.useCache /\ Truthy(favicon)
                key == UrlKey(info[g].url)
            IN  /\ originalInfo' = [originalInfo EXCEPT ![g].favicon = favicon]
                /\ info' = [info EXCEPT ![g].favicon = favicon]
                /\ cache' = IF store THEN set(end.cache, key, favicon) ELSE end.cache
                /\ everSet' = IF store THEN Remember(end.everSet, key, favicon) ELSE end.everSet
                /\ settled' = [settled EXCEPT ![g] = @ \cup
                       {<<"favicon", IF Truthy(favicon) THEN "resolved" ELSE "empty">>}]
                /\ UNCHANGED <<rpc, source, promises, renders, rNotices>>

\* a call of getFavicon made outside the renderer (link decorations)
getFavicon(g, u) ==
    /\ g \notin Blocks
    /\ gpc[g] \in {"idle", "done"}
    /\ Started < MaxCalls
    /\ calls' = [calls EXCEPT ![g] = @ + 1]
    /\ getFaviconStart(g, u)
    /\ UNCHANGED <<cache, everSet, toggles, settings, embedVars, blockVars>>

\* await localParser.getHtmlByElectron(url) gives html
ElectronHtml(g, ext) ==
    /\ gpc[g] = "electron"
    /\ Return(g, "html", ext, afterHtml(g, ext))

\* ... gives nothing: the || goes on to getHtmlByRequest
ElectronEmpty(g) ==
    /\ gpc[g] = "electron"
    /\ gpc' = [gpc EXCEPT ![g] = "request"]
    /\ gFetches' = [gFetches EXCEPT ![g] = Append(@, "request")]
    /\ gOuts' = [gOuts EXCEPT ![g] = Append(@, "empty")]
    /\ UNCHANGED <<gUrl, gExtract, gResult, gThrown, gNotices, gWrote>>
    /\ UNCHANGED <<cache, everSet, toggles, calls, settings, embedVars, blockVars>>

\* ... rejects: the await throws into the catch
ElectronRejects(g) ==
    /\ gpc[g] = "electron"
    /\ Return(g, "error", NotYet, catchFavicon(FetchError))

\* await localParser.getHtmlByRequest(url) gives html
RequestHtml(g, ext) ==
    /\ gpc[g] = "request"
    /\ Return(g, "html", ext, afterHtml(g, ext))

RequestEmpty(g) ==
    /\ gpc[g] = "request"
    /\ Return(g, "empty", NotYet, noHtml)

RequestRejects(g) ==
    /\ gpc[g] = "request"
    /\ Return(g, "error", NotYet, catchFavicon(FetchError))

\* getImageDimensions resolves with dimensions (d # 0) or with nothing
ProbeResolves(r, d) ==
    /\ rpc[r] = "waiting"
    /\ "aspect" \in promises[r]
    /\ ~\E how \in {"resolved", "empty", "rejected"} : <<"aspect", how>> \in settled[r]
    /\ LET key == ImageKey(info[r].image)
           dimensions == Dimensions(d)
           store == d # 0 /\ settings.useCache
       IN  /\ originalInfo' = [originalInfo EXCEPT ![r].aspectRatio = IF d # 0 THEN d ELSE @]
           /\ cache' = IF store THEN set(cache, key, dimensions) ELSE cache
           /\ everSet' = IF store THEN Remember(everSet, key, dimensions) ELSE everSet
           /\ settled' = [settled EXCEPT ![r] = @ \cup
                  {<<"aspect", IF d # 0 THEN "resolved" ELSE "empty">>}]
    /\ UNCHANGED <<rpc, source, info, promises, renders, rNotices>>
    /\ UNCHANGED <<favVars, toggles, calls, settings, embedVars>>

\* getImageDimensions rejects: the .catch reports it
ProbeRejects(r) ==
    /\ rpc[r] = "waiting"
    /\ "aspect" \in promises[r]
    /\ ~\E how \in {"resolved", "empty", "rejected"} : <<"aspect", how>> \in settled[r]
    /\ settled' = [settled EXCEPT ![r] = @ \cup {<<"aspect", "rejected">>}]
    /\ rNotices' = [rNotices EXCEPT ![r] = Append(@, "Link Embed - Aspect Ratio")]
    /\ UNCHANGED <<rpc, source, info, originalInfo, promises, renders>>
    /\ UNCHANGED <<cache, everSet, favVars, toggles, calls, settings, embedVars>>

\* a final render that is made only when no enrichment has rejected
FinalRenderOnSuccess(r) ==
    /\ rpc[r] = "waiting"
    /\ allSettled(r)
    /\ \A e \in promises[r] : <<e, "rejected">> \notin settled[r]
    /\ renders' = [renders EXCEPT ![r] =
           rendered(@, renderEmbed("final", originalInfo[r], originalInfo[r].image,
                                   originalInfo[r].aspectRatio, settings))]
    /\ rpc' = [rpc EXCEPT ![r] = "done"]
    /\ UNCHANGED <<source, info, originalInfo, promises, settled, rNotices>>
    /\ UNCHANGED <<cache, everSet, favVars, toggles, calls, settings, embedVars>>

\* Promise.all(promises).then: the final render
FinalRender(r) ==
    /\ rpc[r] = "waiting"
    /\ allSettled(r)
    /\ renders' = [renders EXCEPT ![r] =
           rendered(@, renderEmbed("final", originalInfo[r], originalInfo[r].image,
                                   originalInfo[r].aspectRatio, settings))]
    /\ rpc' = [rpc EXCEPT ![r] = "done"]
    /\ UNCHANGED <<source, info, originalInfo, promises, settled, rNotices>>
    /\ UNCHANGED <<cache, everSet, favVars, toggles, calls, settings, embedVars>>

\* the user switches caching on or off in the settings
ToggleCache ==
    /\ toggles < MaxToggles
    /\ toggles' = toggles + 1
    /\ settings' = [settings EXCEPT !.useCache = ~@]
    /\ UNCHANGED <<cache, everSet, calls, favVars, blockVars, embedVars>>

BlockRendered ==
    \/ \E r \in Blocks, src \in Sources :
           handleEmbedCodeBlock(r, src) /\ UNCHANGED <<settings, embedVars>>
    \/ \E r \in Blocks, data \in BOOLEAN :
           Base64Resolves(r, data) /\ UNCHANGED <<settings, embedVars>>
    \/ \E r \in Blocks : Base64Rejects(r) /\ UNCHANGED <<settings, embedVars>>

FaviconFetched ==
    \/ \E g \in FavCalls, u \in FaviconUrls : getFavicon(g, u)
    \/ \E g \in FavCalls, ext \in ExtractOutcomes : ElectronHtml(g, ext)
    \/ \E g \in FavCalls : ElectronEmpty(g)
    \/ \E g \in FavCalls : ElectronRejects(g)
    \/ \E g \in FavCalls, ext \in ExtractOutcomes : RequestHtml(g, ext)
    \/ \E g \in FavCalls : RequestEmpty(g)
    \/ \E g \in FavCalls : RequestRejects(g)

Enriched ==
    \/ \E r \in Blocks, d \in DimRatios \cup {0} : ProbeResolves(r, d)
    \/ \E r \in Blocks : ProbeRejects(r)
    \/ \E r \in Blocks : FinalRender(r)

NextRender == BlockRendered \/ FaviconFetched \/ Enriched \/ ToggleCache

RenderSettings ==
    [delay : {0}, enableFavicon : {TRUE}, useMetadataTemplate : {FALSE},
     useCache : BOOLEAN, respectImageAspectRatio : {TRUE}]

InitRender == InitWith({<<>>}, RenderSettings)

SpecRender == InitRender /\ [][NextRender]_allVars

\* ===================================================== getFavicon, claims
Done(g) == gpc[g] = "done"

\* the call fetched and got no html: a backend raised, or both gave nothing
HtmlFetchFailed(g) ==
    Done(g) /\ gOuts[g] # <<>> /\ gOuts[g][Len(gOuts[g])] # "html"

\* a backend raised
FetchRaised(g) == Done(g) /\ gOuts[g] # <<>> /\ gOuts[g][Len(gOuts[g])] = "error"

\* parsing the html, parsing the url or extracting the favicon raised
ExtractionRaised(g) == Done(g) /\ gExtract[g] \in ExtractErrors

\* C11 as stated: getFavicon never throws to its caller; every failure of
\* the HTML fetch, of HTML parsing, of URL parsing or of the extraction
\* resolves the promise to the empty string after a notice was reported.
C11_FailureReported ==
    \A g \in FavCalls :
        /\ ~gThrown[g]
        /\ (HtmlFetchFailed(g) \/ ExtractionRaised(g)) =>
               gResult[g] = "" /\ Len(gNotices[g]) >= 1

\* C11 as amended: getFavicon never throws to its caller and every such
\* failure resolves the promise to the empty string; the notice is reported
\* for the failures that raise an error (exactly one, carrying the error),
\* and none is reported when both backends return an empty result.
C11_NeverThrows ==
    \A g \in FavCalls :
        /\ ~gThrown[g]
        /\ (HtmlFetchFailed(g) \/ ExtractionRaised(g)) => gResult[g] = ""
        /\ FetchRaised(g) => gNotices[g] = <<FetchError>>
        /\ ExtractionRaised(g) => gNotices[g] = <<gExtract[g]>>
        /\ (HtmlFetchFailed(g) /\ ~FetchRaised(g)) => gNotices[g] = <<>>

\* a call that failed on the url (new URL(url) raised) and one whose two
\* backends returned nothing
C11_Witness ==
    /\ Done("direct") /\ gExtract["direct"] = "UrlError"
    /\ gNotices["direct"] = <<"UrlError">>
    /\ Done("block") /\ gOuts["block"] = <<"empty", "empty">>

\* a direct call of getFavicon starts in this step
DirectStarts == calls'["direct"] = calls["direct"] + 1

\* C12: when caching is enabled and the URL is a key of the cache, getFavicon
\* returns the cached value, calls neither fetch backend and leaves the
\* cache as it is.
C12_FastPath ==
    [][ (/\ DirectStarts
         /\ settings.useCache
         /\ UrlKey(gUrl'["direct"]) \in DOMAIN cache)
        => (/\ gpc'["direct"] = "done"
            /\ gResult'["direct"] = cache[UrlKey(gUrl'["direct"])]
            /\ gFetches'["direct"] = <<>>
            /\ cache' = cache) ]_allVars

\* the second direct call on a URL, answered from the cache
C12_Witness ==
    /\ calls["direct"] = 2
    /\ Done("direct")
    /\ gFetches["direct"] = <<>>
    /\ gResult["direct"] = "a.ico"

\* C13: the secondary backend is tried whenever the primary one fails, by
\* raising or by returning nothing, and the extraction works on the first
\* non-empty result.
C13_SecondaryOnFailure ==
    \A g \in FavCalls :
        /\ (Len(gOuts[g]) >= 1 /\ gOuts[g][1] \in {"empty", "error"}) =>
               gFetches[g] = <<"electron", "request">>
        /\ (Len(gOuts[g]) >= 1 /\ gOuts[g][1] = "html") => gFetches[g] = <<"electron">>
        /\ gExtract[g] # NotYet => gOuts[g][Len(gOuts[g])] = "html"

\* C14: an extraction that yields nothing (null or empty) resolves
\* getFavicon to the empty string and caches nothing; no URL key of the cache
\* ever maps to an empty or null favicon.
C14_NothingCachedForNothing ==
    /\ \A g \in FavCalls :
           (Done(g) /\ gExtract[g] \in {Null, ""}) => (gResult[g] = "" /\ ~gWrote[g])
    /\ \A u \in FaviconUrls :
           UrlKey(u) \in DOMAIN cache => Truthy(cache[UrlKey(u)])

\* with caching enabled, the extraction of the block's call gave null and
\* the cache has no entry
C14_Witness ==
    /\ settings.useCache /\ toggles = 0
    /\ Done("block") /\ gExtract["block"] = Null
    /\ "favicon" \in promises["block"]
    /\ DOMAIN cache = {}

\* the step in which the handler starts the enrichments and renders first
SetupStep(r) ==
    /\ calls'[r] = calls[r] + 1 \/ rpc[r] = "base64"
    /\ rpc'[r] \in {"waiting", "done"}
    /\ ~isDummyEmbed(source'[r])

\* C15: with useCache disabled no call reads the cache to skip a fetch or a
\* probe, and no call writes it: the cache content is unchanged, also for a
\* key stored earlier while caching was enabled.
C15_DisabledCacheUntouched ==
    [][ ~settings.useCache =>
        (/\ cache' = cache
         /\ DirectStarts => gFetches'["direct"] = <<"electron">>
         /\ \A r \in Blocks : SetupStep(r) =>
                /\ source'[r].favicon = "" =>
                       ("favicon" \in promises'[r] /\ gFetches'[r] = <<"electron">>)
                /\ (source'[r].aspectRatio = 0 /\ source'[r].image # "") =>
                       "aspect" \in promises'[r]) ]_allVars

\* caching is disabled, the favicon of URL 1 and the dimensions of the image
\* were stored earlier, and the rendering of a block that needs both is
\* fetching and probing
C15_Witness ==
    /\ ~settings.useCache
    /\ UrlKey(1) \in DOMAIN cache
    /\ ImageKey("http") \in DOMAIN cache
    /\ calls["block"] = 2
    /\ rpc["block"] = "waiting"
    /\ promises["block"] = {"favicon", "aspect"}
    /\ settled["block"] = {}

RendersOf(r, phase) == {j \in 1..Len(renders[r]) : renders[r][j].phase = phase}

HasFinal(r) == RendersOf(r, "final") # {}

\* how an enrichment has settled, if it has
HowSettled(r, e) == {how \in {"resolved", "empty", "rejected"} : <<e, how>> \in settled[r]}

SettledOf(r, e) == HowSettled(r, e) # {}

\* C17: the final re-render of a block happens at most once, only when
\* enrichments were pending and only after every one of them has settled.
C17_JoinBarrier ==
    \A r \in Blocks :
        /\ Cardinality(RendersOf(r, "final")) <= 1
        /\ HasFinal(r) =>
               /\ promises[r] # {}
               /\ \A e \in promises[r] : SettledOf(r, e)
               /\ ~isDummyEmbed(source[r])

\* the final render made after both the favicon fetch and the probe settled
C17_Witness ==
    /\ HasFinal("block")
    /\ promises["block"] = {"favicon", "aspect"}
    /\ settled["block"] = {<<"favicon", "resolved">>, <<"aspect", "resolved">>}

\* C18: the first (placeholder) render happens exactly once, before any
\* final render, and while the enrichments it started are still pending.
C18_PlaceholderFirst ==
    \A r \in Blocks :
        /\ rpc[r] \in {"waiting", "done"} =>
               /\ Len(renders[r]) >= 1
               /\ RendersOf(r, "first") = {1}
        /\ rpc[r] \in {"idle", "base64"} => renders[r] = <<>>
        /\ rpc[r] = "waiting" => Len(renders[r]) = 1
        /\ (\E e \in promises[r] : ~SettledOf(r, e)) => RendersOf(r, "first") = {1}

\* the placeholder is on screen, with the spinner and the default ratio,
\* while the favicon fetch and the probe are both pending
C18_Witness ==
    /\ rpc["block"] = "waiting"
    /\ promises["block"] = {"favicon", "aspect"}
    /\ settled["block"] = {}
    /\ Len(renders["block"]) = 1
    /\ renders["block"][1].favicon = SPINNER
    /\ renders["block"][1].aspectRatio = PlaceholderRatio

\* C19: when an enrichment of a rendered embed rejects, a notice is reported
\* and the placeholder render stays: no final render replaces it.
C19_PlaceholderStaysOnReject ==
    \A r \in Blocks :
        (\E e \in promises[r] : "rejected" \in HowSettled(r, e)) =>
            /\ rNotices[r] # <<>>
            /\ ~HasFinal(r)

\* the probe of the block failed: it rejected or it gave no dimensions
ProbeFailed(r) ==
    /\ source[r].aspectRatio = 0
    /\ "aspect" \in promises[r]
    /\ HowSettled(r, "aspect") \cap {"rejected", "empty"} # {}

\* C20: when the probe fails for a block with no declared aspectRatio, every
\* render made after the failure uses the placeholder ratio of the first
\* render, so the computed width does not change.
C20_FailedProbeKeepsWidth ==
    \A r \in Blocks :
        ProbeFailed(r) =>
            \A j \in 1..Len(renders[r]) :
                /\ renders[r][j].aspectRatio = PlaceholderRatio
                /\ renders[r][j].width = renders[r][1].width


\* ---------------------------------------------------------------- C29, C30
\* the parser that made the j-th attempt of a call, read off its outcome
AttemptedBy(i, j) ==
    IF outcomes[i][j].ok THEN outcomes[i][j].data.by ELSE outcomes[i][j].err.parser

\* the parse calls of a call that have not settled yet
InFlight(i) == Len(invoked[i]) - Len(outcomes[i])

\* C29: within one tryParsers call the parsers are tried strictly in list
\* order, the parse of a parser starts only after the parse of the parser
\* before it has failed, and at most one parse is in flight at any time.
C29_OneAtATime ==
    \A i \in Embeds :
        /\ InFlight(i) \in {0, 1}
        /\ Len(invoked[i]) <= Len(selectedParsers[i])
        /\ \A j \in 1..Len(invoked[i]) :
              /\ invoked[i][j] = j
              /\ j > 1 => ~outcomes[i][j - 1].ok
        /\ \A j \in 1..Len(outcomes[i]) : AttemptedBy(i, j) = selectedParsers[i][j]

\* the second parser of a list of two different parsers is being parsed
\* after the first one failed
C29_Witness ==
    \E i \in Embeds :
        /\ pc[i] = "parse"
        /\ Len(invoked[i]) = 2
        /\ Len(outcomes[i]) = 1
        /\ selectedParsers[i][1] # selectedParsers[i][2]


\* the notices of the parser failures of a call, as positions in the sink
ParserFailures(i) ==
    {k \in 1..Len(notices[i]) : notices[i][k].ctx = "Link Embed - Parser"}

\* the attempts of a call that failed
FailedAttempts(i) == {j \in 1..Len(outcomes[i]) : ~outcomes[i][j].ok}

\* one notice per failed attempt, carrying the error of that attempt, and no
\* other parser notice
OnePerFailure(i) ==
    /\ Cardinality(ParserFailures(i)) = Cardinality(FailedAttempts(i))
    /\ \A j \in FailedAttempts(i) :
          Cardinality({k \in ParserFailures(i) :
                          notices[i][k].err = outcomes[i][j].err}) = 1
    /\ \A k \in ParserFailures(i) :
          \E j \in FailedAttempts(i) : notices[i][k].err = outcomes[i][j].err

\* C30 as stated: one failure notice per failed attempt, and each of them is
\* off the screen when tryParsers has returned or thrown.
C30_FailuresRetracted ==
    \A i \in Embeds :
        /\ OnePerFailure(i)
        /\ (Returned(i) \/ Threw(i)) => ParserFailures(i) \subseteq expired[i]

\* C30: in every tryParsers run exactly one failure notice is shown per
\* attempted parser that failed, none for a parser that succeeded or was
\* never attempted, and the progress indicator of every attempt is off the
\* screen when tryParsers exits.
C30_OneNoticePerFailure ==
    \A i \in Embeds :
        /\ OnePerFailure(i)
        /\ \A k \in ParserFailures(i) : notices[i][k].err.attempt <= Len(invoked[i])
        /\ (Returned(i) \/ Threw(i)) => visible[i] = {}

\* the first parser failed, the second succeeded and the call has returned
\* while the failure notice is still on the screen
C30_Witness ==
    \E i \in Embeds :
        /\ Returned(i)
        /\ Len(outcomes[i]) = 2
        /\ Cardinality(ParserFailures(i)) = 1
        /\ expired[i] = {}


\* ---------------------------------------------------------------------- C21
\* the block is a fetching stub: title 'Fetching', the spinner as image and a
\* description starting with 'Fetching '
LooksLikeStub(src) == src.title = "Fetching" /\ src.image = SPINNER /\ src.fetching

MaxRatio == 200
Renderings == 2

\* the aspect ratios a block can carry; 0 stands for an absent one
Ratios == 0..MaxRatio

\* a block whose metadata is resolved, with its aspect ratio
Resolved(ar) ==
    [title |-> "t", fetching |-> FALSE, url |-> 1, image |-> "http", favicon |-> "",
     aspectRatio |-> ar]

everything == <<vars, rvars, expired, bvars, later>>

\* renderEmbed(info, info.image, info.aspectRatio, el, settings)
Render(r) ==
    /\ Len(renders[r]) < Renderings
    /\ renders' = [renders EXCEPT ![r] =
           rendered(@, renderEmbed("final", info[r], info[r].image,
                                   info[r].aspectRatio, settings))]
    /\ UNCHANGED <<cache, toggles, calls, everSet, favVars, rpc, source, info,
                   originalInfo, promises, settled, rNotices, settings, embedVars>>

NextWidth == \E r \in Blocks : Render(r)

InitWidth ==
    /\ EmbedInit({<<>>}, {s \in RenderSettings : s.useCache})
    /\ \E ar \in Ratios : RenderIdleWith(Resolved(ar))
    /\ ButtonsIdle
    /\ SuggestIdle
    /\ LinksIdle

SpecWidth == InitWidth /\ [][NextWidth]_everything

\* w is x / y rounded to the nearest integer, a half rounded up
IsRounded(w, x, y) == 2 * w * y - y <= 2 * x /\ 2 * x < 2 * w * y + y

\* C27: the width renderEmbed computes is round(baseWidth * 100 / aspectRatio)
\* with baseWidth 160 when the aspect ratio is known (non-zero), and
\* baseWidth * 100 when it is not.
C27_WidthFormula ==
    \A r \in Blocks : \A k \in 1..Len(renders[r]) :
        LET ar == info[r].aspectRatio
            w == renders[r][k].width
        IN  IF ar # 0 THEN IsRounded(w, 160 * 100, ar) ELSE w = 160 * 100

\* a block whose ratio does not divide 16000 has been rendered
C27_Witness ==
    \E r \in Blocks :
        /\ Len(renders[r]) > 0
        /\ info[r].aspectRatio = 7
        /\ renders[r][1].width = 2286

\* C28 as stated: the two renderings of one block have the same width, which
\* is round(1600 / aspectRatio) for a positive ratio and 16000 for an absent one.
C28_SameWidth1600 ==
    \A r \in Blocks :
        Len(renders[r]) >= 2 =>
            LET ar == info[r].aspectRatio
                w == renders[r][1].width
            IN  /\ renders[r][2].width = w
                /\ IF ar > 0 THEN IsRounded(w, 1600, ar) ELSE w = 16000

\* C28: the two renderings of one resolved block have the same width, which
\* is round(16000 / aspectRatio) for a positive ratio and 16000 for an
\* absent one.
C28_SameWidth16000 ==
    \A r \in Blocks :
        Len(renders[r]) >= 2 =>
            LET ar == info[r].aspectRatio
                w == renders[r][1].width
            IN  /\ renders[r][2].width = w
                /\ renders[r][2] = renders[r][1]
                /\ IF ar > 0 THEN IsRounded(w, 16000, ar) ELSE w = 16000

\* a block of ratio 100 has been rendered twice, 160 wide both times
C28_Witness ==
    \E r \in Blocks :
        /\ Len(renders[r]) = 2
        /\ info[r].aspectRatio = 100
        /\ renders[r][1].width = 160
        /\ renders[r][2].width = 160


\* ------------------------------------------------------ the block buttons
MaxItems == 2

\* leading white space of a line
Indent == Tok("indent", 0, 0, "")

Min(a, b) == IF a < b THEN a ELSE b
Max(a, b) == IF a > b THEN a ELSE b

\* String.split('\n')
RECURSIVE split(_)
split(text) ==
    LET j == IndexOf(text, NL, 1)
    IN  IF j = 0 THEN <<text>>
        ELSE <<SubSeq(text, 1, j - 1)>> \o split(SubSeq(text, j + 1, Len(text)))

\* Array.join('\n')
RECURSIVE join(_)
join(lines) ==
    IF Len(lines) = 0 THEN <<>>
    ELSE IF Len(lines) = 1 THEN lines[1]
    ELSE lines[1] \o <<NL>> \o join(Tail(lines))

\* Array.slice(from, to): 0-based, to excluded, a negative index counts from
\* the end, both clipped to the array
slice(lines, from, to) ==
    LET n == Len(lines)
        f == IF from < 0 THEN Max(n + from, 0) ELSE Min(from, n)
        t == IF to < 0 THEN Max(n + to, 0) ELSE Min(to, n)
    IN  SubSeq(lines, f + 1, t)

\* oldEmbed.match(/^(\s+)/): the white space the text starts with
RECURSIVE leadingWhitespace(_)
leadingWhitespace(text) ==
    IF Len(text) > 0 /\ text[1] \in {Indent, NL}
    THEN <<text[1]>> \o leadingWhitespace(Tail(text))
    ELSE <<>>

\* .split('\n').map((line) => indentation + line).join('\n')
indentLines(text, indentation) ==
    LET lines == split(text)
    IN  join([j \in 1..Len(lines) |-> indentation \o lines[j]])

matchesAt(text, pat, j) ==
    j + Len(pat) - 1 <= Len(text) /\ SubSeq(text, j, j + Len(pat) - 1) = pat

\* String.replace(pat, new) with a string pattern: the first occurrence of
\* pat in the text is replaced, the text is returned as it is without one
replace(text, pat, new) ==
    IF \E j \in 1..(Len(text) + 1) : matchesAt(text, pat, j)
    THEN LET j == CHOOSE j \in 1..(Len(text) + 1) :
                     /\ matchesAt(text, pat, j)
                     /\ \A m \in 1..(j - 1) : ~matchesAt(text, pat, m)
         IN  Splice(text, j, j + Len(pat) - 1, new)
    ELSE text

\* the settings the buttons run with
ButtonSettings == [delay |-> 0, enableFavicon |-> TRUE, useMetadataTemplate |-> FALSE]

\* a block as an earlier insertion left it in the note
OldBlock == trimEnd(generateEmbedMarkdown(Metadata(1, Primary, FALSE), ButtonSettings, Primary))

\* what a note is made of: a line of text, the block, the block indented
Items == {<<Text>>, OldBlock, indentLines(OldBlock, <<Indent>>)}

IsBlock(item) == item # <<Text>>

Notes == UNION {[1..n -> Items] : n \in 1..MaxItems}

\* the section of the k-th item of a note: its first and last line, 0-based
SectionOf(d, k) ==
    LET first == IF k = 1 THEN 0 ELSE Len(split(join(SubSeq(d, 1, k - 1))))
    IN  [lineStart |-> first, lineEnd |-> first + Len(split(d[k])) - 1]

\* a note in the vault (or gone from it) and the block whose button is
\* clicked (or a block that getSectionInfo does not find)
InitButtons ==
    /\ EmbedInit({<<>>}, {ButtonSettings})
    /\ RenderIdle
    /\ SuggestIdle
    /\ LinksIdle
    /\ \E d \in Notes :
          /\ file = join(d)
          /\ section \in {NoSection} \cup
                {SectionOf(d, k) : k \in {j \in 1..Len(d) : IsBlock(d[j])}}
    /\ fileExists \in BOOLEAN
    /\ bAction = "none"
    /\ bpc = "idle"
    /\ bContent = <<>>
    /\ bData = NoReturn
    /\ bEmbed = <<>>
    /\ bNew = <<>>
    /\ bModifies = 0
    /\ bWrites = <<>>
    /\ clipboard = <<>>
    /\ bNotices = <<>>
    /\ bFetches = 0
    /\ bRet = FALSE
    /\ bEscaped = FALSE


Buttons == {"refresh", "copy", "delete"}

Context(a) ==
    IF a = "refresh" THEN "Link Embed - Refresh"
    ELSE IF a = "copy" THEN "Link Embed - Copy"
    ELSE "Link Embed - Delete"

BNotice(text, type, a) == [text |-> text, type |-> type, ctx |-> Context(a)]

\* a lookup that finds a file whatever the path
getAnyFile(exists) == TRUE

\* vault.getAbstractFileByPath(ctx.sourcePath): the file, or null
getAbstractFileByPath(exists) == exists

\* a lookup whose result is taken for a section whatever it is
hasAnySection(sectionInfo) == TRUE

\* ctx.getSectionInfo(element) is not null
hasSection(sectionInfo) == sectionInfo # NoSection

\* a catch that reports the error and lets refreshEmbed return true
refreshCatchAsDone(log, text) ==
    [log |-> Append(log, BNotice(text, "error", "refresh")), ret |-> TRUE]

\* the catch blocks of refreshEmbed: the error is reported, false is returned
refreshCatch(log, text) ==
    [log |-> Append(log, BNotice(text, "error", "refresh")), ret |-> FALSE]

\* the click handler of the refresh button after refreshEmbed has returned
afterRefresh(log, success) ==
    IF success
    THEN Append(log, BNotice("Embed refreshed successfully", "success", "refresh"))
    ELSE log

\* the catch block of the copy and of the delete handler
handlerCatch(log, a, text) == Append(log, BNotice(text, "error", a))

\* a removal that keeps the last line of the block
removeLinesButLast(lines, startLine, endLine) ==
    slice(lines, 0, startLine) \o slice(lines, endLine - 1, Len(lines))

\* [...lines.slice(0, startLine), ...lines.slice(endLine)]
removeLines(lines, startLine, endLine) ==
    slice(lines, 0, startLine) \o slice(lines, endLine, Len(lines))

\* the handler ends with a failure reported
Fail(a, text) ==
    /\ bpc' = "done"
    /\ IF a = "refresh"
       THEN /\ bNotices' = afterRefresh(refreshCatch(bNotices, text).log,
                                        refreshCatch(bNotices, text).ret)
            /\ bRet' = refreshCatch(bNotices, text).ret
       ELSE /\ bNotices' = handlerCatch(bNotices, a, text)
            /\ bRet' = bRet
    /\ bEscaped' = FALSE

\* the click on a button, up to the await of vault.read
Click(a) ==
    /\ bpc = "idle"
    /\ bAction' = a
    /\ IF ~getAbstractFileByPath(fileExists)
       THEN Fail(a, "File not found")
       ELSE IF ~hasSection(section)
       THEN Fail(a, "Could not get section info")
       ELSE /\ bpc' = "read"
            /\ UNCHANGED <<bNotices, bRet, bEscaped>>
    /\ UNCHANGED <<file, fileExists, section, bContent, bData, bEmbed, bNew,
                   bModifies, bWrites, clipboard, bFetches>>

\* vault.read resolves: refresh goes on to tryParsers, copy to the clipboard,
\* delete to vault.modify
ReadResolves ==
    /\ bpc = "read"
    /\ fileExists
    /\ bContent' = file
    /\ LET lines == split(file)
           startLine == section.lineStart
           endLine == section.lineEnd + 1
       IN  CASE bAction = "refresh" ->
                  /\ bFetches' = bFetches + 1
                  /\ bpc' = "parse"
                  /\ UNCHANGED <<bNew, bModifies>>
             [] bAction = "copy" ->
                  /\ bNew' = join(slice(lines, startLine, endLine))
                  /\ bpc' = "clipboard"
                  /\ UNCHANGED <<bFetches, bModifies>>
             [] bAction = "delete" ->
                  /\ bNew' = join(removeLines(lines, startLine, endLine))
                  /\ bModifies' = bModifies + 1
                  /\ bpc' = "modify"
                  /\ UNCHANGED bFetches
    /\ UNCHANGED <<file, fileExists, section, bAction, bData, bEmbed, bWrites,
                   clipboard, bNotices, bRet, bEscaped>>

\* vault.read rejects
ReadRejects ==
    /\ bpc = "read"
    /\ Fail(bAction, "read failed")
    /\ UNCHANGED <<file, fileExists, section, bAction, bContent, bData, bEmbed,
                   bNew, bModifies, bWrites, clipboard, bFetches>>

\* refresh: tryParsers(url, [settings.primary, settings.backup]) returns; the
\* new block is generated, indented and put in the place of the old text,
\* and vault.modify is called
ParsersReturn(parserName, fav) ==
    /\ bpc = "parse"
    /\ LET data == Metadata(1, parserName, fav)
           lines == split(bContent)
           oldEmbed == join(slice(lines, section.lineStart, section.lineEnd + 1))
           newEmbed == generateEmbedMarkdown(data, settings, parserName)
           indentedNewEmbed == indentLines(trimEnd(newEmbed), leadingWhitespace(oldEmbed))
       IN  /\ bData' = [data |-> data, selectedParser |-> parserName]
           /\ bEmbed' = indentedNewEmbed
           /\ bNew' = replace(bContent, oldEmbed, indentedNewEmbed)
    /\ bModifies' = bModifies + 1
    /\ bpc' = "modify"
    /\ UNCHANGED <<file, fileExists, section, bAction, bContent, bWrites,
                   clipboard, bNotices, bFetches, bRet, bEscaped>>

\* refresh: tryParsers throws, every parser has failed
ParsersThrow ==
    /\ bpc = "parse"
    /\ Fail(bAction, "parsers failed")
    /\ UNCHANGED <<file, fileExists, section, bAction, bContent, bData, bEmbed,
                   bNew, bModifies, bWrites, clipboard, bFetches>>

\* vault.modify resolves: the note holds the new text
ModifyResolves ==
    /\ bpc = "modify"
    /\ file' = bNew
    /\ bWrites' = Append(bWrites, bNew)
    /\ bpc' = "done"
    /\ IF bAction = "refresh"
       THEN /\ bRet' = TRUE
            /\ bNotices' = afterRefresh(bNotices, TRUE)
       ELSE /\ bRet' = bRet
            /\ bNotices' = Append(bNotices, BNotice("Embed block deleted", "success", "delete"))
    /\ UNCHANGED <<fileExists, section, bAction, bContent, bData, bEmbed, bNew,
                   bModifies, clipboard, bFetches, bEscaped>>

\* vault.modify rejects
ModifyRejects ==
    /\ bpc = "modify"
    /\ Fail(bAction, "modify failed")
    /\ UNCHANGED <<file, fileExists, section, bAction, bContent, bData, bEmbed,
                   bNew, bModifies, bWrites, clipboard, bFetches>>

\* navigator.clipboard.writeText resolves
ClipboardResolves ==
    /\ bpc = "clipboard"
    /\ clipboard' = Append(clipboard, bNew)
    /\ bNotices' = Append(bNotices, BNotice("Embed code copied to clipboard", "success", "copy"))
    /\ bpc' = "done"
    /\ UNCHANGED <<file, fileExists, section, bAction, bContent, bData, bEmbed,
                   bNew, bModifies, bWrites, bFetches, bRet, bEscaped>>

\* navigator.clipboard.writeText rejects
ClipboardRejects ==
    /\ bpc = "clipboard"
    /\ bNotices' = Append(bNotices, BNotice("Error copying to clipboard", "error", "copy"))
    /\ bpc' = "done"
    /\ UNCHANGED <<file, fileExists, section, bAction, bContent, bData, bEmbed,
                   bNew, bModifies, bWrites, clipboard, bFetches, bRet, bEscaped>>

\* what the buttons leave alone
others == <<vars, rvars, expired, later>>

Clicked == \E a \in Buttons : Click(a) /\ UNCHANGED others

Refreshing ==
    \E parserName \in {Primary, Backup}, fav \in BOOLEAN :
        ParsersReturn(parserName, fav) /\ UNCHANGED others

NextButtons ==
    \/ Clicked
    \/ ReadResolves /\ UNCHANGED others
    \/ ReadRejects /\ UNCHANGED others
    \/ Refreshing
    \/ ParsersThrow /\ UNCHANGED others
    \/ ModifyResolves /\ UNCHANGED others
    \/ ModifyRejects /\ UNCHANGED others
    \/ ClipboardResolves /\ UNCHANGED others
    \/ ClipboardRejects /\ UNCHANGED others

SpecButtons == InitButtons /\ [][NextButtons]_everything


\* ----------------------------------------------------------- C22 .. C26
\* the lines of the text vault.read returned
LinesRead == split(bContent)

\* the text read with the lines lineStart..lineEnd replaced by the lines new
WithLines(new) ==
    join(SubSeq(LinesRead, 1, section.lineStart) \o new
            \o SubSeq(LinesRead, section.lineEnd + 2, Len(LinesRead)))

\* the block generated from what tryParsers returned, every line behind the
\* indentation of the first line of the old block
ExpectedBlock ==
    LET block == split(trimEnd(generateEmbedMarkdown(bData.data, settings,
                                                     bData.selectedParser)))
        indentation == leadingWhitespace(LinesRead[section.lineStart + 1])
    IN  [j \in 1..Len(block) |-> indentation \o block[j]]

Shown(text, type) == \E k \in 1..Len(bNotices) :
                         bNotices[k].text = text /\ bNotices[k].type = type

Successes == {k \in 1..Len(bNotices) : bNotices[k].type = "success"}

Errors == {k \in 1..Len(bNotices) : bNotices[k].type = "error"}

\* C22: a successful refresh writes the text it read with exactly the lines
\* lineStart..lineEnd of the clicked block replaced by the new block, every
\* new line behind the indentation of the old first line, and every other
\* line as it was, whatever the note, a note holding the same block text
\* more than once included.
C22_ReplacedInPlace ==
    (bAction = "refresh" /\ bRet = TRUE) =>
        /\ bWrites = <<WithLines(ExpectedBlock)>>
        /\ file = WithLines(ExpectedBlock)

\* C23: a refresh whose backing file cannot be found reports 'File not
\* found', fetches nothing, writes nothing and returns false, so that no
\* success notice follows and no exception reaches the click handler.
C23_RefreshFileNotFound ==
    (bAction = "refresh" /\ ~fileExists) =>
        /\ bpc = "done"
        /\ bNotices = <<BNotice("File not found", "error", "refresh")>>
        /\ bFetches = 0
        /\ bContent = <<>>
        /\ bModifies = 0
        /\ bWrites = <<>>
        /\ bRet = FALSE
        /\ ~bEscaped

\* the refresh button of a block of a note that is gone has been clicked
C23_Witness ==
    /\ bAction = "refresh"
    /\ ~fileExists
    /\ section # NoSection
    /\ bpc = "done"

\* C24: refresh, copy and delete each fail gracefully when the backing file
\* or the section of the block cannot be resolved: one error notice, no file
\* write, no clipboard write, no fetch, and no exception leaves the handler.
C24_FailsGracefully ==
    (bAction \in Buttons /\ (~fileExists \/ section = NoSection)) =>
        /\ bpc = "done"
        /\ bNotices = <<BNotice(IF fileExists THEN "Could not get section info"
                                ELSE "File not found", "error", bAction)>>
        /\ bModifies = 0
        /\ bWrites = <<>>
        /\ clipboard = <<>>
        /\ bNew = <<>>
        /\ bFetches = 0
        /\ bContent = <<>>
        /\ bRet = FALSE
        /\ ~bEscaped

\* the copy button of a block without section information has been clicked
C24_Witness ==
    /\ bAction = "copy"
    /\ fileExists
    /\ section = NoSection
    /\ bpc = "done"

\* C25: a delete writes the lines before lineStart followed by the lines
\* after lineEnd, in their order, and the file is written exactly once.
C25_DeleteRemovesBlock ==
    bAction = "delete" =>
        /\ bModifies <= 1
        /\ Len(bWrites) <= 1
        /\ Shown("Embed block deleted", "success") <=> Len(bWrites) = 1
        /\ Len(bWrites) = 1 =>
              /\ bWrites[1] = WithLines(<<>>)
              /\ file = WithLines(<<>>)
              /\ bModifies = 1

\* the second of two blocks has been deleted
C25_Witness ==
    /\ bAction = "delete"
    /\ Len(bWrites) = 1
    /\ section.lineStart > 0
    /\ file = OldBlock

\* C26: a refresh writes the file at most once, and not at all when it
\* fails at any step (file or section not found, read failure, every parser
\* failing); it then returns false, no success notice is shown and the
\* content of the file is unchanged.
C26_AtMostOneWrite ==
    bAction = "refresh" =>
        /\ bModifies <= 1
        /\ Len(bWrites) <= 1
        /\ Errors # {} =>
              /\ bpc = "done"
              /\ bRet = FALSE
              /\ Successes = {}
              /\ bWrites = <<>>
              /\ bContent # <<>> => file = bContent
        /\ (\E k \in Errors : bNotices[k].text # "modify failed") => bModifies = 0
        /\ bWrites # <<>> => bRet = TRUE

\* every parser failed in a refresh
C26_Witness ==
    /\ bAction = "refresh"
    /\ bpc = "done"
    /\ Shown("parsers failed", "error")
    /\ bFetches = 1

\* ------------------------------------------------- the backup parser writes
\* one insertion by a caller, the user not editing, under every setting of
\* the favicon feature and of the metadata line
NextFallback == Insertion({1}, CallerLists) \/ Resume({1})

InitFallback ==
    InitWith({<<>>, <<Text>>},
             [delay : DelayValues, enableFavicon : BOOLEAN, useMetadataTemplate : BOOLEAN])

SpecFallback == InitFallback /\ [][NextFallback]_vars

\* the primary parser failed and the backup parser returned data
FellBack(i) ==
    /\ selectedParsers[i] = <<Primary, Backup>>
    /\ Len(outcomes[i]) = 2
    /\ ~outcomes[i][1].ok
    /\ outcomes[i][2].ok

\* the block of the scenario, line by line: the data lines and the url line
\* of the backup parser's result, a favicon line only when the feature is on
\* and the parser returned one, the metadata line naming the backup
BackupBlock(i) ==
    <<Fence, EmbedWord, NL, DataLines(url[i], Backup), NL, UrlLine(url[i]), NL>>
        \o (IF settings.enableFavicon /\ outcomes[i][2].data.favicon
            THEN <<FaviconLine(url[i], Backup), NL>> ELSE <<>>)
        \o (IF settings.useMetadataTemplate
            THEN <<MetadataLine(Backup), NL>> ELSE <<>>)
        \o <<Fence>>

HasFaviconKey(text) == \E k \in 1..Len(text) : text[k].k = "favicon"

\* C32: when the primary parser fails and the backup parser succeeds, the
\* final block written by embedUrl is generated from the backup's data (its
\* title and url, the backup named as selected parser), and with the favicon
\* feature disabled the document holds no favicon key whatever the parser
\* returned.
C32_BackupBlockWritten ==
    \A i \in Embeds :
        (FellBack(i) /\ outcome[i] = "replaced") =>
            /\ ret[i].selectedParser = Backup
            /\ doc = Splice(before[i], range[i][1], range[i][2], BackupBlock(i))
            /\ ~settings.enableFavicon => ~HasFaviconKey(doc)

\* the backup returned a favicon, the feature is off, the block was written
C32_Witness ==
    \E i \in Embeds :
        /\ FellBack(i)
        /\ outcome[i] = "replaced"
        /\ outcomes[i][2].data.favicon
        /\ ~settings.enableFavicon
        /\ Occurs(doc, BackupBlock(i))

\* ------------------------------------------- the note changes under refresh
\* a line typed into the note by the user
Typed == Tok("typed", 0, 0, "")

\* another actor changes the note while refreshEmbed, its read done, awaits
\* tryParsers: the user types a line at the end of the note
NoteEdited ==
    /\ bpc = "parse"
    /\ fileExists
    /\ ~Contains(file, Typed)
    /\ file' = file \o <<NL, Typed>>
    /\ UNCHANGED <<fileExists, section, bAction, bpc, bContent, bData, bEmbed,
                   bNew, bModifies, bWrites, clipboard, bNotices, bFetches,
                   bRet, bEscaped>>

NextShared == NextButtons \/ (NoteEdited /\ UNCHANGED others)

SpecShared == InitButtons /\ [][NextShared]_everything

\* C34: a change made to the file by another actor between the read and the
\* write of refreshEmbed, while the parser fetch is pending, is still in the
\* file after the refresh has written: no step takes the typed line out of
\* the note.
C34_ChangeSurvives ==
    [][Contains(file, Typed) => Contains(file', Typed)]_everything

\* --------------------------------------------------- the spinner is transient
\* blocks with remote or no image, with or without a declared favicon
LiveSources ==
    [title : {"t"}, fetching : {FALSE}, url : BlockUrls, image : {"", "http"},
     favicon : {"", "declared.ico"}, aspectRatio : {0}]

\* the favicon fetch of a rendered block goes on or ends
FaviconSettles ==
    \/ \E r \in Blocks, ext \in ExtractOutcomes : ElectronHtml(r, ext)
    \/ \E r \in Blocks : ElectronEmpty(r)
    \/ \E r \in Blocks : ElectronRejects(r)
    \/ \E r \in Blocks, ext \in ExtractOutcomes : RequestHtml(r, ext)
    \/ \E r \in Blocks : RequestEmpty(r)
    \/ \E r \in Blocks : RequestRejects(r)

NextLive ==
    \/ \E r \in Blocks, src \in LiveSources :
           handleEmbedCodeBlock(r, src) /\ UNCHANGED <<settings, embedVars>>
    \/ FaviconSettles
    \/ Enriched

\* every pending enrichment eventually settles (the proviso of the claim),
\* and a callback whose promise is resolved is run by the event loop
Fairness == WF_allVars(FaviconSettles) /\ WF_allVars(Enriched)

SpecLive == InitRender /\ [][NextLive]_allVars /\ Fairness

\* the immediate render shows the spinner in the place of the favicon
SpinnerShown(r) ==
    /\ rpc[r] = "waiting"
    /\ Len(renders[r]) = 1
    /\ renders[r][1].favicon = SPINNER

\* the embed has been rendered again, with a favicon that is not the spinner
ReRendered(r) ==
    /\ Len(renders[r]) = 2
    /\ renders[r][2].phase = "final"
    /\ renders[r][2].favicon # SPINNER

NoFinalSpinner ==
    \A r \in Blocks : \A k \in 1..Len(renders[r]) :
        renders[r][k].phase = "final" => renders[r][k].favicon # SPINNER

\* C38: a spinner favicon is transient: if the immediate render shows the
\* spinner as favicon placeholder then, every pending enrichment eventually
\* settling, the embed is eventually rendered again with a favicon that is
\* not the spinner; and no final render shows the spinner as favicon.
C38_SpinnerTransient ==
    /\ []NoFinalSpinner
    /\ \A r \in Blocks : SpinnerShown(r) ~> ReRendered(r)

\* the spinner was shown, the favicon fetch failed, and the final render
\* shows no favicon
C38_Witness ==
    \E r \in Blocks :
        /\ Len(renders[r]) = 2
        /\ renders[r][1].favicon = SPINNER
        /\ <<"favicon", "rejected">> \in settled[r] \/ <<"favicon", "empty">> \in settled[r]
        /\ renders[r][2].phase = "final"
        /\ renders[r][2].favicon = ""

\* ------------------------------------------- the dummy in the reading view
\* parseYaml on the body of an embed block: the keys the lines carry; the
\* placeholder id of the metadata line is a key the renderer does not read
parseYaml(body) ==
    LET Has(kind) == \E k \in 1..Len(body) : body[k].k = kind
        Line(kind) == body[CHOOSE k \in 1..Len(body) : body[k].k = kind]
    IN  [title |-> IF Has("fetching") THEN "Fetching" ELSE "t",
         fetching |-> Has("fetching"),
         url |-> IF Has("url") THEN Line("url").u ELSE 0,
         image |-> IF Has("fetching") THEN SPINNER ELSE "http",
         favicon |-> IF Has("favicon") THEN "declared.ico" ELSE "",
         aspectRatio |-> 0]

\* the closing fence of the block opened at a: the next fence
closingFence(text, a) ==
    CHOOSE e \in (a + 1)..Len(text) :
        text[e] = Fence /\ \A m \in (a + 1)..(e - 1) : text[m] # Fence

\* the host renders an embed block of the document: the code block
\* processor is called on the text between its fences
Previewed ==
    \E r \in Blocks, a \in 1..Len(doc) :
        /\ IsOpenFenceAt(doc, a)
        /\ \E e \in (a + 1)..Len(doc) : doc[e] = Fence
        /\ handleEmbedCodeBlock(r, parseYaml(SubSeq(doc, a + 1, closingFence(doc, a) - 1)))
        /\ UNCHANGED <<settings, embedVars>>

PreviewSettings ==
    [delay : DelayValues, enableFavicon : {TRUE}, useMetadataTemplate : {FALSE},
     useCache : {TRUE}, respectImageAspectRatio : {TRUE}]

InitPreview == InitWith({<<>>, <<Text>>}, PreviewSettings)

\* one insertion into a note that is shown rendered
NextPreview ==
    \/ Insertion({1}, CallerLists)
    \/ Resume({1})
    \/ Previewed
    \/ FaviconSettles
    \/ Enriched

SpecPreview == InitPreview /\ [][NextPreview]_everything

\* the dummy of insertion i is in the document as embedUrl wrote it
DummyIntact(i) == pc[i] \in {"parse", "delay"} /\ Occurs(doc, DummyBlock(i))

AnchorKinds == {"http", "disabled", "other"}

\* enableMarkdownLinkFavicon and enableMarkdownLinkFaviconInReading
LinkSettings == [enableMarkdownLinkFavicon |-> TRUE,
                 enableMarkdownLinkFaviconInReading |-> TRUE]

\* element.querySelectorAll('a.external-link:not([data-link-favicon])'): the
\* links that are not marked when the call starts, in document order
querySelectorAll(m) ==
    LET Unmarked(l) == l \notin m
    IN  SelectSeq([l \in Links |-> l], Unmarked)

\* a check that does not read data-link-favicon
isDisabledByAttribute(l, m) == anchors[l] = "disabled"

\* isDisabled: data-no-favicon, data-link-favicon, |nofavicon, alias settings
isDisabled(l, m) == anchors[l] = "disabled" \/ l \in m

\* the for loop from index i up to its next await (or its end): disabled and
\* processed links are skipped, the others are marked, and getFavicon is
\* awaited for those whose href starts with http
RECURSIVE loop(_, _, _)
loop(snap, i, m) ==
    IF i > Len(snap)
    THEN [i |-> i, marked |-> m, await |-> FALSE]
    ELSE IF isDisabled(snap[i], m)
    THEN loop(snap, i + 1, m)
    ELSE IF anchors[snap[i]] # "http"
    THEN loop(snap, i + 1, m \cup {snap[i]})
    ELSE [i |-> i, marked |-> m \cup {snap[i]}, await |-> TRUE]

\* the call goes on from index i of its NodeList
Continue(c, snap, i) ==
    LET r == loop(snap, i, marked)
    IN  /\ marked' = r.marked
        /\ lPos' = [lPos EXCEPT ![c] = r.i]
        /\ lpc' = [lpc EXCEPT ![c] = IF r.await THEN "await" ELSE "done"]
        /\ fetchedBy' = IF r.await
                        THEN [fetchedBy EXCEPT ![snap[r.i]] = @ \cup {c}]
                        ELSE fetchedBy

linkOthers == <<vars, rvars, expired, bvars, svars>>

\* the post processor calls processLinks on the element
processLinks(c) ==
    /\ lpc[c] = "idle"
    /\ LinkSettings.enableMarkdownLinkFavicon
    /\ LinkSettings.enableMarkdownLinkFaviconInReading
    /\ lSnapshot' = [lSnapshot EXCEPT ![c] = querySelectorAll(marked)]
    /\ Continue(c, querySelectorAll(marked), 1)
    /\ UNCHANGED <<anchors, images>>
    /\ UNCHANGED linkOthers

\* await getFavicon returns, with a favicon or with nothing: the image is
\* put into the link and the loop goes on
FaviconReturns(c, favicon) ==
    /\ lpc[c] = "await"
    /\ images' = IF favicon
                 THEN [images EXCEPT ![lSnapshot[c][lPos[c]]] = @ + 1]
                 ELSE images
    /\ Continue(c, lSnapshot[c], lPos[c] + 1)
    /\ UNCHANGED <<anchors, lSnapshot>>
    /\ UNCHANGED linkOthers

\* await getFavicon throws: the catch swallows it and the loop goes on
FaviconThrows(c) ==
    /\ lpc[c] = "await"
    /\ Continue(c, lSnapshot[c], lPos[c] + 1)
    /\ UNCHANGED <<anchors, images, lSnapshot>>
    /\ UNCHANGED linkOthers

NextLinks ==
    \/ \E c \in Processors : processLinks(c)
    \/ \E c \in Processors, favicon \in BOOLEAN : FaviconReturns(c, favicon)
    \/ \E c \in Processors : FaviconThrows(c)

InitLinks ==
    /\ EmbedInit({<<>>}, {ButtonSettings})
    /\ RenderIdle
    /\ ButtonsIdle
    /\ SuggestIdle
    /\ anchors \in [Links -> AnchorKinds]
    /\ marked = {}
    /\ images = [l \in Links |-> 0]
    /\ fetchedBy = [l \in Links |-> {}]
    /\ lpc = [c \in Processors |-> "idle"]
    /\ lSnapshot = [c \in Processors |-> <<>>]
    /\ lPos = [c \in Processors |-> 0]

SpecLinks == InitLinks /\ [][NextLinks]_everything

\* C36: processLinks adds at most one favicon image to any link: under every
\* interleaving of concurrent calls over the same element, a link a call is
\* suspended for is marked processed, each link is fetched for by at most
\* one call, and each link holds at most one favicon image.
C36_OneFaviconPerLink ==
    /\ \A c \in Processors :
          lpc[c] = "await" => lSnapshot[c][lPos[c]] \in marked
    /\ \A l \in Links :
          /\ Cardinality(fetchedBy[l]) <= 1
          /\ images[l] <= 1
          /\ fetchedBy[l] # {} => l \in marked

\* two calls ran over the same two links at the same time: the second found
\* the first link marked, each fetched for one link and each link got its
\* image
C36_Witness ==
    \E c \in Processors, d \in Processors :
        /\ c # d
        /\ lpc[c] = "done" /\ lpc[d] = "done"
        /\ Len(lSnapshot[c]) = 2 /\ Len(lSnapshot[d]) = 1
        /\ fetchedBy[1] = {c} /\ fetchedBy[2] = {d}
        /\ images[1] = 1 /\ images[2] = 1

\* ------------------------------------------------ the paste and the suggestion
\* Texts are opaque: 0 is a text that is not a URL (the empty text in
\* pasteInfo), u > 0 is the URL u, which is u characters long. A character
\* of the line is the number of the text it came with; the markdown link
\* made for u is the item Link(u).
Clipboard == {0, 1, 2}

UrlText(t) == [k \in 1..t |-> t]

Pasted(t) == IF t = 0 THEN <<0>> ELSE UrlText(t)

Link(u) == 10 + u

\* the offset of the URL text each pending conversion was started for, after
\* n characters have been put in at offset p
Shifted(cs, p, n) ==
    [k \in 1..Len(cs) |->
        IF cs[k].state = "pending" /\ cs[k].at >= p
        THEN [cs[k] EXCEPT !.at = @ + n] ELSE cs[k]]

\* editor.replaceRange on the line, positions clipped to it
replaceChars(text, new, start, end) ==
    replaceRange(text, new, (IF start < 0 THEN 0 ELSE start) + 1, end)

\* the editor-paste event: handleEditorPaste, then (in this editor) the
\* host puts the text in at the cursor; a paste into another editor of the
\* workspace reaches handleEditorPaste all the same
handleEditorPaste(t, here) ==
    /\ hist.pastes < MaxPastes
    /\ pasteInfo' = IF t # 0 THEN [trigger |-> TRUE, text |-> t]
                    ELSE [trigger |-> FALSE, text |-> 0]
    /\ IF here
       THEN /\ line' = InsertAt(line, cursor, Pasted(t))
            /\ cursor' = cursor + Len(Pasted(t))
            /\ dirty' = TRUE
            /\ conv' = Shifted(conv, cursor, Len(Pasted(t)))
       ELSE UNCHANGED <<line, cursor, dirty, conv>>
    /\ hist' = [paste |-> t, calls |-> 0, started |-> 0, last |-> "none",
                pastes |-> hist.pastes + 1, typed |-> hist.typed]
    /\ UNCHANGED <<suggestion, flows, sSettings>>

\* the user types a character at offset p; the typing is followed while a
\* conversion is pending
Type(p) ==
    /\ hist.typed < MaxTyped
    /\ \E k \in 1..Len(conv) : conv[k].state = "pending"
    /\ p \in {0, cursor}
    /\ line' = InsertAt(line, p, <<0>>)
    /\ cursor' = cursor + 1
    /\ dirty' = TRUE
    /\ conv' = Shifted(conv, p, 1)
    /\ hist' = [hist EXCEPT !.typed = @ + 1]
    /\ UNCHANGED <<pasteInfo, suggestion, flows, sSettings>>

\* embedUrl(editor, {can: true, text, boundary}, ..., true) as far as the
\* line goes: the boundary is emptied; the dummy goes to the lines below
embedCalled(by) ==
    LET len == Len(UrlText(pasteInfo.text))
        start == cursor - len
    IN  /\ flows' = <<[kind |-> "embed", text |-> pasteInfo.text,
                       start |-> start, end |-> cursor,
                       query |-> suggestion.query, by |-> by]>>
        /\ line' = replaceChars(line, <<>>, start, cursor)
        /\ cursor' = IF start < 0 THEN 0 ELSE start
        /\ dirty' = TRUE
        /\ conv' = conv

\* the conversions that have not ended
StillPending(cs) ==
    LET IsPending(c) == c.state = "pending"
    IN  SelectSeq(cs, IsPending)

\* convertToMarkdownLink up to its await
convertToMarkdownLink(by) ==
    LET len == Len(UrlText(pasteInfo.text))
        start == cursor - len
    IN  /\ flows' = <<[kind |-> "markdown", text |-> pasteInfo.text,
                       start |-> start, end |-> cursor,
                       query |-> suggestion.query, by |-> by]>>
        /\ conv' = Append(StillPending(conv),
               [state |-> "pending", url |-> pasteInfo.text,
                start |-> start, end |-> cursor, at |-> start,
                valid |-> /\ pasteInfo.text # 0
                          /\ start >= 0
                          /\ SubSeq(line, start + 1, cursor) = UrlText(pasteInfo.text),
                before |-> <<>>, after |-> <<>>])
        /\ UNCHANGED <<line, cursor, dirty>>

\* an onTrigger that leaves the trigger set
consumeNothing(p) == p

\* this.plugin.pasteInfo.trigger = false
consume(p) == [p EXCEPT !.trigger = FALSE]

Called(result) ==
    [hist EXCEPT !.calls = IF @ < 2 THEN @ + 1 ELSE @,
                 !.started = IF result = "null" THEN @ ELSE @ + 1,
                 !.last = result]

\* EmbedSuggest.onTrigger, called by the host when the editor has changed or
\* the cursor has moved; a null result closes the popup
onTrigger ==
    IF ~pasteInfo.trigger
    THEN /\ suggestion' = NoSuggestion
         /\ hist' = Called("null")
         /\ dirty' = FALSE
         /\ UNCHANGED <<pasteInfo, line, cursor, flows, conv, sSettings>>
    ELSE /\ pasteInfo' = consume(pasteInfo)
         /\ UNCHANGED sSettings
         /\ IF /\ sSettings.autoEmbedWhenEmpty
               /\ cursor - Len(UrlText(pasteInfo.text)) = 0
            THEN /\ IF sSettings.defaultPasteAction = "markdown"
                    THEN /\ convertToMarkdownLink("trigger")
                         /\ dirty' = FALSE
                    ELSE embedCalled("trigger")
                 /\ suggestion' = NoSuggestion
                 /\ hist' = Called("flow")
            ELSE IF ~sSettings.popup
            THEN /\ suggestion' = NoSuggestion
                 /\ hist' = Called("null")
                 /\ dirty' = FALSE
                 /\ UNCHANGED <<line, cursor, flows, conv>>
            ELSE /\ suggestion' = [open |-> TRUE, query |-> pasteInfo.text]
                 /\ hist' = Called("suggest")
                 /\ dirty' = FALSE
                 /\ UNCHANGED <<line, cursor, flows, conv>>

Choices == {"Create Embed Block", "Create Markdown Link", "Dismiss"}

\* EmbedSuggest.selectSuggestion: the popup is open and up to date
selectSuggestion(choice) ==
    /\ suggestion.open
    /\ ~dirty
    /\ CASE choice = "Create Embed Block" -> embedCalled("select")
         [] choice = "Create Markdown Link" -> convertToMarkdownLink("select")
         [] OTHER -> UNCHANGED <<flows, conv, line, cursor, dirty>>
    /\ suggestion' = NoSuggestion
    /\ UNCHANGED <<pasteInfo, hist, sSettings>>

\* convertUrlToMarkdownLink returns: the link when the parsers gave a title,
\* null when they gave none or failed; the link goes over the boundary
\* taken before the await
TitleFetched(k, result) ==
    /\ k \in 1..Len(conv)
    /\ conv[k].state = "pending"
    /\ LET c == conv[k]
           new == IF result = "title"
                  THEN replaceChars(line, <<Link(c.url)>>, c.start, c.end)
                  ELSE line
       IN  /\ line' = new
           /\ conv' = [conv EXCEPT ![k] =
                  [c EXCEPT !.state = IF result = "title" THEN "replaced" ELSE "kept",
                            !.before = line, !.after = new]]
           /\ cursor' = IF cursor > Len(new) THEN Len(new) ELSE cursor
           /\ dirty' = (dirty \/ result = "title")
    /\ UNCHANGED <<pasteInfo, suggestion, flows, hist, sSettings>>

pasteOthers == <<vars, rvars, expired, bvars, lvars>>

\* pastes into this editor and into others, the host calling onTrigger, the
\* user choosing from the popup
NextPaste ==
    \/ \E t \in Clipboard, here \in BOOLEAN :
           handleEditorPaste(t, here) /\ UNCHANGED pasteOthers
    \/ onTrigger /\ UNCHANGED pasteOthers
    \/ \E choice \in Choices : selectSuggestion(choice) /\ UNCHANGED pasteOthers

InitPaste ==
    /\ EmbedInit({<<>>}, {ButtonSettings})
    /\ RenderIdle
    /\ ButtonsIdle
    /\ LinksIdle
    /\ pasteInfo = [trigger |-> FALSE, text |-> 0]
    /\ line \in {<<>>, <<0>>}
    /\ cursor = Len(line)
    /\ dirty = FALSE
    /\ suggestion = NoSuggestion
    /\ flows = <<>>
    /\ conv = <<>>
    /\ hist = NoHistory
    /\ sSettings \in [autoEmbedWhenEmpty : BOOLEAN, popup : BOOLEAN,
                      defaultPasteAction : {"embed", "markdown"}]

SpecPaste == InitPaste /\ [][NextPaste]_everything

\* one paste into this editor, and the conversion it leads to with the user
\* typing meanwhile
NextConvert ==
    \/ \E t \in Clipboard :
           hist.pastes = 0 /\ handleEditorPaste(t, TRUE) /\ UNCHANGED pasteOthers
    \/ onTrigger /\ UNCHANGED pasteOthers
    \/ \E choice \in Choices : selectSuggestion(choice) /\ UNCHANGED pasteOthers
    \/ \E p \in 0..Len(line) : Type(p) /\ UNCHANGED pasteOthers
    \/ \E k \in 1..Len(conv), result \in {"title", "none", "error"} :
           TitleFetched(k, result) /\ UNCHANGED pasteOthers

SpecConvert == InitPaste /\ [][NextConvert]_everything

\* the slot as a paste of other text leaves it
SlotReset == pasteInfo = [trigger |-> FALSE, text |-> 0]

\* C31 (as stated): after a URL paste has set the trigger, exactly one
\* following onTrigger call starts a suggestion or insertion flow and after
\* it the slot is reset (trigger false, text empty); every further onTrigger
\* call without a new URL paste returns null and starts nothing; a paste of
\* other text leaves the slot reset.
C31_ConsumedThenReset ==
    /\ (hist.paste > 0 /\ hist.calls >= 1) => (hist.started = 1 /\ SlotReset)
    /\ hist.calls >= 2 => hist.last = "null"
    /\ hist.paste = 0 => SlotReset

\* C31 (amended): after a URL paste has set the trigger, at most one
\* following onTrigger call starts a flow, the first one, and none when the
\* popup is off and the automatic embed is off; that call clears the trigger
\* and keeps the text; every further onTrigger call without a new URL paste
\* returns null and starts nothing; a paste of other text leaves the slot
\* reset.
C31_ConsumedOnce ==
    /\ hist.started <= 1
    /\ (hist.paste > 0 /\ hist.calls = 0) =>
           pasteInfo = [trigger |-> TRUE, text |-> hist.paste]
    /\ (hist.paste > 0 /\ hist.calls >= 1) =>
           pasteInfo = [trigger |-> FALSE, text |-> hist.paste]
    /\ (hist.paste > 0 /\ hist.calls >= 1 /\ sSettings.popup) => hist.started = 1
    /\ (~sSettings.popup /\ ~sSettings.autoEmbedWhenEmpty) => hist.started = 0
    /\ hist.calls >= 2 => hist.last = "null"
    /\ hist.paste = 0 => (SlotReset /\ hist.started = 0)

\* a URL was pasted, the first onTrigger opened the popup, a second one
\* returned null
C31_Witness ==
    /\ hist.paste > 0
    /\ hist.calls = 2
    /\ hist.started = 1
    /\ hist.last = "null"
    /\ pasteInfo.text = hist.paste

\* C35: the URL selectSuggestion acts on is the URL of the paste that opened
\* the suggestion, whatever pastes happen between that onTrigger and the
\* selection: the text handed to embedUrl or to the markdown-link
\* conversion is the query the popup was opened with, and the range is the
\* length of that URL before the cursor.
C35_ActsOnTriggeringPaste ==
    \A k \in 1..Len(flows) :
        flows[k].by = "select" =>
            /\ flows[k].text = flows[k].query
            /\ flows[k].start = flows[k].end - Len(UrlText(flows[k].query))

\* the item the conversion k has put in, in the place of the URL text it was
\* started for
ItsUrlReplaced(c) ==
    Splice(c.before, c.at + 1, c.at + Len(UrlText(c.url)), <<Link(c.url)>>)

\* C37: the markdown-link conversion replaces exactly the URL text it was
\* started for, whatever is typed while the title fetch is pending, and
\* leaves the line alone when the fetch fails or gives no title.
C37_ReplacesItsUrl ==
    \A k \in 1..Len(conv) :
        conv[k].valid =>
            /\ conv[k].state = "replaced" => conv[k].after = ItsUrlReplaced(conv[k])
            /\ conv[k].state = "kept" => conv[k].after = conv[k].before

\* ------------------------------------------------- one cache, two kinds
\* blocks made for a link to an image: the image address is the page address
SharedSources ==
    [title : {"t"}, fetching : {FALSE}, url : BlockUrls, image : {SamePage, "http"},
     favicon : {"", "declared.ico"}, aspectRatio : {0}]

NextUnified ==
    \/ \E r \in Blocks, src \in SharedSources :
           handleEmbedCodeBlock(r, src) /\ UNCHANGED <<settings, embedVars>>
    \/ FaviconSettles
    \/ Enriched

InitUnified == InitWith({<<>>}, {s \in RenderSettings : s.useCache})

SpecUnified == InitUnified /\ [][NextUnified]_allVars

\* C33: concurrent enrichments that use the same key only recompute: cache
\* writes are idempotent, a key maps to the same value after every write,
\* so the cache content does not depend on the order in which the
\* enrichments complete.
C33_WritesIdempotent ==
    [][\A key \in DOMAIN everSet \cap DOMAIN everSet' :
           everSet'[key] = everSet[key]]_allVars

====
